---- MODULE Spec2Model ----
(***************************************************************************)
(* A model of rkd_parser.py: the RKD binary telemetry parser (RKDParser),  *)
(* the IMU merge and the CSV exporter's GPS/IMU interpolation walk.        *)
(*                                                                         *)
(* A file is a sequence of bytes (0..255).  Python offsets are 0-based: the *)
(* byte at Python offset o is d[o + 1].                                    *)
(*                                                                         *)
(* Numbers.  TLC's integers are 32 bits wide, Python's are unbounded, so   *)
(* the inputs keep every unsigned 32-bit field below 2^31.  Floats are     *)
(* kept as exact fixed-point integers in the unit of the raw field:        *)
(*   latitude, longitude  1e-7 degree      speed_ms     1e-2 m/s           *)
(*   heading_deg          1e-5 degree      altitude_m   1e-3 m             *)
(*   accel_x/y/z          1e-5 m/s^2 (raw milli-g * 981)                   *)
(*   gyro_x/y/z           1/28 degree/s (the raw value)                    *)
(* utc_ms is the pair [s, ms] standing for s * 1000 + ms milliseconds.     *)
(***************************************************************************)
EXTENDS Integers, Sequences, FiniteSets, TLC

VARIABLES
    data,            \* the bytes read from the file (parse, line 219)
    pc,              \* where parse is: validate, meta, records, scan, merge, returned, raised
    err,             \* the exception that ended parse ("none" while there is none)
    session,         \* the RKDSession built by parse
    has_staging,     \* whether self._accel_by_frame / self._gyro_by_frame exist
    accel_by_frame,  \* self._accel_by_frame (frame -> <<ax, ay, az>>)
    gyro_by_frame,   \* self._gyro_by_frame  (frame -> <<gx, gy, gz>>)
    offset,          \* the cursor of _parse_records
    scanned,         \* history: the offsets of the records counted and dispatched
    stop,            \* history: why the scan loop ended
    csv,             \* export_csv's locals: gps_idx, the loop position, prev_lat/prev_lon, the file
    rows,            \* the data rows export_csv has written
    gpx,             \* export_gpx: the file, the warning, the trackpoints written
    runs,            \* history: what each finished export call wrote
    sample,          \* create_sample_rkd's locals: data, out, offset, gps_count
    calls,           \* two concurrent calls of parse: each one's locals and its parser object
    parsers,         \* the staging lookups each RKDParser object holds
    result           \* the call of a function of the module and the value it returned

parse_vars == <<data, err, session, has_staging, accel_by_frame, gyro_by_frame,
                offset, scanned, stop>>

csv_vars == <<csv, rows>>

\* what the exporters other than export_csv, the sample creator, a second
\* caller and the utility functions keep
aux_vars == <<gpx, runs, sample, calls, parsers, result>>

vars == <<data, pc, err, session, has_staging, accel_by_frame, gyro_by_frame,
          offset, scanned, stop, csv, rows, gpx, runs, sample, calls, parsers, result>>

(***************************************************************************)
(* Program constants                                                       *)
(***************************************************************************)
RKD_MAGIC == <<137, 82, 75, 68, 13, 10, 26, 10>>

\* datetime(1980, 1, 6, tzinfo=utc).timestamp(), in seconds
GPS_EPOCH == 315964800

GPS_LEAP_SECONDS == 18

RECORD_HEADER == 1

RECORD_GPS == 2

RECORD_PERIODIC == 6

RECORD_ACCEL == 7

RECORD_TIMESTAMP == 8

RECORD_GYRO == 12

RECORD_TERMINATOR == 32769

META_HEADER_SIZE == 28

RECORD_HEADER_SIZE == 10

TRAILING_CRC_SIZE == 2

\* struct.calcsize("<2I2h6i"): the size of a GPS payload
GPS_PAYLOAD_SIZE == 36

\* struct.calcsize("<3i"): the size of an accelerometer or gyroscope payload
IMU_PAYLOAD_SIZE == 12

\* the size of the "<I" field of a TERMINATOR payload
TERMINATOR_MIN_SIZE == 4

\* U+FFFD, what bytes.decode("ascii", errors="replace") puts for a byte >= 0x80
REPLACEMENT_CHAR == 65533

(***************************************************************************)
(* Bytes: slicing and struct's little-endian fields                        *)
(***************************************************************************)
\* Python's d[a:b] for 0 <= a
Slice(d, a, b) ==
    LET hi == IF b > Len(d) THEN Len(d) ELSE b
    IN  IF hi <= a THEN <<>> ELSE [i \in 1..(hi - a) |-> d[a + i]]

\* struct format H: unsigned 16 bits at Python offset off
unpack_H(d, off) == d[off + 1] + 256 * d[off + 2]

\* struct format h: signed 16 bits
unpack_h(d, off) ==
    d[off + 1] + 256 * (IF d[off + 2] >= 128 THEN d[off + 2] - 256 ELSE d[off + 2])

\* struct format I: unsigned 32 bits
unpack_I(d, off) ==
    d[off + 1] + 256 * d[off + 2] + 65536 * d[off + 3] + 16777216 * d[off + 4]

\* struct format i: signed 32 bits
unpack_i(d, off) ==
    d[off + 1] + 256 * d[off + 2] + 65536 * d[off + 3]
      + 16777216 * (IF d[off + 4] >= 128 THEN d[off + 4] - 256 ELSE d[off + 4])

\* struct.unpack(fmt, payload) raises struct.error unless the payload has
\* exactly the size of the format (unpack_from only needs enough bytes)
struct_unpack_raises(payload, size) == Len(payload) # size

(***************************************************************************)
(* Mappings (Python dicts)                                                 *)
(***************************************************************************)
EmptyMap == [k \in {} |-> 0]

MapPut(m, k, v) == [x \in (DOMAIN m) \cup {k} |-> IF x = k THEN v ELSE m[x]]

MapGet(m, k, default) == IF k \in DOMAIN m THEN m[k] ELSE default

(***************************************************************************)
(* RKDSession and its parts                                                *)
(***************************************************************************)
\* RKDSession(file_path=..., file_size=len(data)): every other field at its default
NewSession(size) ==
    [file_size |-> size, car_id |-> 0, session_timestamp |-> 0,
     config |-> EmptyMap, gps_fixes |-> <<>>, imu_frames |-> <<>>,
     record_counts |-> EmptyMap, terminator_timestamp |-> 0]

\* mutant: the span between the earliest and the latest timestamp
duration_seconds_of_extremes(s) ==
    IF Len(s.gps_fixes) < 2 THEN 0
    ELSE LET ts == {s.gps_fixes[i].gps_timestamp : i \in 1..Len(s.gps_fixes)}
         IN  (CHOOSE x \in ts : \A y \in ts : y <= x)
               - (CHOOSE x \in ts : \A y \in ts : x <= y)

\* RKDSession.duration_seconds
duration_seconds(s) ==
    IF Len(s.gps_fixes) < 2 THEN 0
    ELSE s.gps_fixes[Len(s.gps_fixes)].gps_timestamp - s.gps_fixes[1].gps_timestamp

\* max(iterable) of Python, for a non-empty sequence of integers
max(q) == CHOOSE x \in {q[i] : i \in 1..Len(q)} : \A i \in 1..Len(q) : q[i] <= x

\* RKDSession.max_speed_kmh, in 1e-3 km/h: speed_ms is in 1e-2 m/s, and
\* 3.6 km/h per m/s is 36 units per unit
max_speed_kmh(s) ==
    IF Len(s.gps_fixes) = 0 THEN 0
    ELSE max([i \in 1..Len(s.gps_fixes) |-> s.gps_fixes[i].speed_ms]) * 36

\* the arguments of one call _haversine(lat1, lon1, lat2, lon2)
_haversine_call(lat1, lon1, lat2, lon2) == <<lat1, lon1, lat2, lon2>>

\* RKDSession.total_distance_km, as the _haversine calls whose values it adds
\* up, in order (none: the total is 0.0)
total_distance_km(s) ==
    IF Len(s.gps_fixes) < 2 THEN <<>>
    ELSE [k \in 1..(Len(s.gps_fixes) - 1) |->
             _haversine_call(s.gps_fixes[k].latitude, s.gps_fixes[k].longitude,
                             s.gps_fixes[k + 1].latitude, s.gps_fixes[k + 1].longitude)]

\* mutant: the leap seconds added instead of taken off
_gps_to_utc_ms_leap_added(gps_seconds) ==
    [s |-> GPS_EPOCH + (gps_seconds + GPS_LEAP_SECONDS), ms |-> 0]

\* _gps_to_utc_ms: GPS_EPOCH + (gps_seconds - GPS_LEAP_SECONDS), times 1000
_gps_to_utc_ms(gps_seconds) ==
    [s |-> GPS_EPOCH + (gps_seconds - GPS_LEAP_SECONDS), ms |-> 0]

(***************************************************************************)
(* parse: _validate_magic and _parse_meta_header                           *)
(***************************************************************************)
\* mutant: the signature compared before the length is checked
_validate_magic_signature_first(d) ==
    IF Slice(d, 0, Len(RKD_MAGIC)) # RKD_MAGIC THEN "Invalid RKD magic"
    ELSE IF Len(d) < Len(RKD_MAGIC) THEN "File too small to be an RKD file"
    ELSE "none"

\* the error _validate_magic raises, "none" when it returns
_validate_magic(d) ==
    IF Len(d) < Len(RKD_MAGIC) THEN "File too small to be an RKD file"
    ELSE IF Slice(d, 0, Len(RKD_MAGIC)) # RKD_MAGIC THEN "Invalid RKD magic"
    ELSE "none"

\* mutant: car_id read from values[3], a field the code does not read
_parse_meta_header_car_id_from_reserved(d, s) ==
    LET off == Len(RKD_MAGIC)
    IN  IF Len(d) < off + META_HEADER_SIZE
        THEN [err |-> "File too small for meta header", session |-> s]
        ELSE [err |-> "none",
              session |-> [s EXCEPT !.car_id = unpack_I(d, off + 4 * 3),
                                    !.session_timestamp = unpack_I(d, off + 4 * 5)]]

\* the error _parse_meta_header raises ("none": it returns) and the session after it
_parse_meta_header(d, s) ==
    LET off == Len(RKD_MAGIC)
    IN  IF Len(d) < off + META_HEADER_SIZE
        THEN [err |-> "File too small for meta header", session |-> s]
        ELSE [err |-> "none",
              session |-> [s EXCEPT !.car_id = unpack_I(d, off + 4 * 4),
                                    !.session_timestamp = unpack_I(d, off + 4 * 5)]]

(***************************************************************************)
(* Payload decoders                                                        *)
(***************************************************************************)
\* bytes.rstrip(b"\x00")
RECURSIVE rstrip_nul(_)
rstrip_nul(b) ==
    IF Len(b) > 0 /\ b[Len(b)] = 0 THEN rstrip_nul(SubSeq(b, 1, Len(b) - 1)) ELSE b

\* bytes.decode("ascii", errors="replace")
decode_ascii(b) == [i \in 1..Len(b) |-> IF b[i] < 128 THEN b[i] ELSE REPLACEMENT_CHAR]

\* the position of the first null byte of text (which has one)
FirstNul(text) == CHOOSE i \in 1..Len(text) :
                      text[i] = 0 /\ \A j \in 1..(i - 1) : text[j] # 0

\* mutant: an existing key is kept (first writer wins)
_parse_header_record_first_wins(payload, s) ==
    LET text == rstrip_nul(payload)
    IN  IF \E i \in 1..Len(text) : text[i] = 0
        THEN LET i     == FirstNul(text)
                 key   == SubSeq(text, 1, i - 1)
                 value == SubSeq(text, i + 1, Len(text))
             IN  IF decode_ascii(key) \in DOMAIN s.config THEN s
                 ELSE [s EXCEPT !.config =
                         MapPut(s.config, decode_ascii(key), decode_ascii(value))]
        ELSE s

_parse_header_record(payload, s) ==
    LET text == rstrip_nul(payload)
    IN  IF \E i \in 1..Len(text) : text[i] = 0
        THEN LET i     == FirstNul(text)
                 key   == SubSeq(text, 1, i - 1)
                 value == SubSeq(text, i + 1, Len(text))
             IN  [s EXCEPT !.config =
                     MapPut(s.config, decode_ascii(key), decode_ascii(value))]
        ELSE s

\* [raised, session]: raised when struct.unpack("<2I2h6i", payload) raises
_parse_gps_record(payload, frame, s) ==
    IF Len(payload) < GPS_PAYLOAD_SIZE THEN [raised |-> FALSE, session |-> s]
    ELSE IF struct_unpack_raises(payload, GPS_PAYLOAD_SIZE)
         THEN [raised |-> TRUE, session |-> s]
    ELSE LET gps_ts == unpack_I(payload, 4)
             fix == [frame |-> frame,
                     gps_timestamp |-> gps_ts,
                     utc_ms |-> _gps_to_utc_ms(gps_ts),
                     satellites |-> unpack_h(payload, 8),
                     latitude |-> unpack_i(payload, 12),
                     longitude |-> unpack_i(payload, 16),
                     speed_ms |-> unpack_i(payload, 20),
                     heading_deg |-> unpack_i(payload, 24),
                     altitude_m |-> unpack_i(payload, 28),
                     vertical_speed_cms |-> unpack_i(payload, 32)]
         IN  [raised |-> FALSE,
              session |-> [s EXCEPT !.gps_fixes = Append(s.gps_fixes, fix)]]

\* mutant: the first sample of a frame is kept, later ones are dropped
_parse_gyro_record_first_wins(payload, frame, by_frame) ==
    IF Len(payload) < IMU_PAYLOAD_SIZE THEN [raised |-> FALSE, map |-> by_frame]
    ELSE IF struct_unpack_raises(payload, IMU_PAYLOAD_SIZE)
         THEN [raised |-> TRUE, map |-> by_frame]
    ELSE IF frame \in DOMAIN by_frame THEN [raised |-> FALSE, map |-> by_frame]
    ELSE [raised |-> FALSE,
          map |-> MapPut(by_frame, frame,
                         <<unpack_i(payload, 0), unpack_i(payload, 4),
                           unpack_i(payload, 8)>>)]

\* mutant: a short payload staged as zeros instead of dropped
_parse_accel_record_short_as_zero(payload, frame, by_frame) ==
    IF Len(payload) < IMU_PAYLOAD_SIZE
    THEN [raised |-> FALSE, map |-> MapPut(by_frame, frame, <<0, 0, 0>>)]
    ELSE IF struct_unpack_raises(payload, IMU_PAYLOAD_SIZE)
         THEN [raised |-> TRUE, map |-> by_frame]
    ELSE [raised |-> FALSE,
          map |-> MapPut(by_frame, frame,
                         <<unpack_i(payload, 0) * 981,
                           unpack_i(payload, 4) * 981,
                           unpack_i(payload, 8) * 981>>)]

\* [raised, map]: the accelerometer staging lookup after the record
_parse_accel_record(payload, frame, by_frame) ==
    IF Len(payload) < IMU_PAYLOAD_SIZE THEN [raised |-> FALSE, map |-> by_frame]
    ELSE IF struct_unpack_raises(payload, IMU_PAYLOAD_SIZE)
         THEN [raised |-> TRUE, map |-> by_frame]
    ELSE [raised |-> FALSE,
          map |-> MapPut(by_frame, frame,
                         <<unpack_i(payload, 0) * 981,
                           unpack_i(payload, 4) * 981,
                           unpack_i(payload, 8) * 981>>)]

\* [raised, map]: the gyroscope staging lookup after the record
_parse_gyro_record(payload, frame, by_frame) ==
    IF Len(payload) < IMU_PAYLOAD_SIZE THEN [raised |-> FALSE, map |-> by_frame]
    ELSE IF struct_unpack_raises(payload, IMU_PAYLOAD_SIZE)
         THEN [raised |-> TRUE, map |-> by_frame]
    ELSE [raised |-> FALSE,
          map |-> MapPut(by_frame, frame,
                         <<unpack_i(payload, 0), unpack_i(payload, 4),
                           unpack_i(payload, 8)>>)]

_parse_terminator_record(payload, s) ==
    IF Len(payload) >= TERMINATOR_MIN_SIZE
    THEN [s EXCEPT !.terminator_timestamp = unpack_I(payload, 0)]
    ELSE s

\* sorted(S) for a finite set of integers
RECURSIVE sorted(_)
sorted(S) ==
    IF S = {} THEN <<>>
    ELSE LET m == CHOOSE x \in S : \A y \in S : x <= y
         IN  <<m>> \o sorted(S \ {m})

\* IMUFrame(frame, accel_x, accel_y, accel_z, gyro_x, gyro_y, gyro_z)
IMUFrame(frame, a, g) ==
    [frame |-> frame, accel_x |-> a[1], accel_y |-> a[2], accel_z |-> a[3],
     gyro_x |-> g[1], gyro_y |-> g[2], gyro_z |-> g[3]]

\* mutant: only the frames that have accelerometer data are merged
_merge_imu_accel_frames_only(s, accel, gyro) ==
    LET all_frames == sorted(DOMAIN accel)
        merged == [i \in 1..Len(all_frames) |->
                      IMUFrame(all_frames[i],
                               MapGet(accel, all_frames[i], <<0, 0, 0>>),
                               MapGet(gyro, all_frames[i], <<0, 0, 0>>))]
    IN  [s EXCEPT !.imu_frames = s.imu_frames \o merged]

\* _merge_imu: the session after the merge of the two staging lookups
_merge_imu(s, accel, gyro) ==
    LET all_frames == sorted((DOMAIN accel) \cup (DOMAIN gyro))
        merged == [i \in 1..Len(all_frames) |->
                      IMUFrame(all_frames[i],
                               MapGet(accel, all_frames[i], <<0, 0, 0>>),
                               MapGet(gyro, all_frames[i], <<0, 0, 0>>))]
    IN  [s EXCEPT !.imu_frames = s.imu_frames \o merged]

(***************************************************************************)
(* _parse_records: the record header and one iteration of the scan loop    *)
(***************************************************************************)
\* mutant: the trailing checksum taken for record bytes
ScanEnd_into_checksum(d) == Len(d)

\* end = len(data) - TRAILING_CRC_SIZE
ScanEnd(d) == Len(d) - TRAILING_CRC_SIZE

\* struct.unpack_from("<5H", data, offset): crc, rtype, payload_size, frame_lo, frame_hi
RecordHeader(d, off) ==
    [crc |-> unpack_H(d, off), rtype |-> unpack_H(d, off + 2),
     payload_size |-> unpack_H(d, off + 4),
     frame_lo |-> unpack_H(d, off + 6), frame_hi |-> unpack_H(d, off + 8)]

\* mutant: the frame taken from the low half alone
FrameOf_low_half_only(h) == h.frame_lo

\* frame = (frame_hi << 16) | frame_lo, both halves being 16 bits wide
FrameOf(h) == h.frame_hi * 65536 + h.frame_lo

PayloadStart(off) == off + RECORD_HEADER_SIZE

\* mutant: the payload end taken from the record offset, without the header
PayloadEnd_without_header(d, off) == off + RecordHeader(d, off).payload_size

PayloadEnd(d, off) == PayloadStart(off) + RecordHeader(d, off).payload_size

\* mutant: the payload runs to the end of the buffer
PayloadOf_to_end_of_data(d, off) == Slice(d, PayloadStart(off), Len(d))

\* payload = data[payload_start:payload_end]
PayloadOf(d, off) == Slice(d, PayloadStart(off), PayloadEnd(d, off))

\* mutant: only the types that have a decoder are counted
CountRecord_decoded_types_only(s, rtype) ==
    IF rtype \in {RECORD_HEADER, RECORD_GPS, RECORD_ACCEL, RECORD_GYRO, RECORD_TERMINATOR}
    THEN [s EXCEPT !.record_counts = MapPut(s.record_counts, rtype,
                                            MapGet(s.record_counts, rtype, 0) + 1)]
    ELSE s

\* session.record_counts[rtype] = session.record_counts.get(rtype, 0) + 1
CountRecord(s, rtype) ==
    [s EXCEPT !.record_counts = MapPut(s.record_counts, rtype,
                                       MapGet(s.record_counts, rtype, 0) + 1)]

\* mutant: each accelerometer or gyroscope record merged as it is read
Dispatch_merging_record_by_record(rtype, payload, frame, c) ==
    IF rtype = RECORD_HEADER
    THEN [raised |-> FALSE, session |-> _parse_header_record(payload, c.session),
          accel |-> c.accel, gyro |-> c.gyro]
    ELSE IF rtype = RECORD_GPS
    THEN LET r == _parse_gps_record(payload, frame, c.session)
         IN  [raised |-> r.raised, session |-> r.session,
              accel |-> c.accel, gyro |-> c.gyro]
    ELSE IF rtype = RECORD_ACCEL
    THEN LET r == _parse_accel_record(payload, frame, EmptyMap)
         IN  [raised |-> r.raised, session |-> _merge_imu(c.session, r.map, EmptyMap),
              accel |-> c.accel, gyro |-> c.gyro]
    ELSE IF rtype = RECORD_GYRO
    THEN LET r == _parse_gyro_record(payload, frame, EmptyMap)
         IN  [raised |-> r.raised, session |-> _merge_imu(c.session, EmptyMap, r.map),
              accel |-> c.accel, gyro |-> c.gyro]
    ELSE IF rtype = RECORD_TERMINATOR
    THEN [raised |-> FALSE, session |-> _parse_terminator_record(payload, c.session),
          accel |-> c.accel, gyro |-> c.gyro]
    ELSE [raised |-> FALSE, session |-> c.session, accel |-> c.accel, gyro |-> c.gyro]

\* The dispatch of one counted record: the decode state after it, and whether
\* the decoder raised.  c is [session, accel, gyro].
Dispatch(rtype, payload, frame, c) ==
    IF rtype = RECORD_HEADER
    THEN [raised |-> FALSE, session |-> _parse_header_record(payload, c.session),
          accel |-> c.accel, gyro |-> c.gyro]
    ELSE IF rtype = RECORD_GPS
    THEN LET r == _parse_gps_record(payload, frame, c.session)
         IN  [raised |-> r.raised, session |-> r.session,
              accel |-> c.accel, gyro |-> c.gyro]
    ELSE IF rtype = RECORD_ACCEL
    THEN LET r == _parse_accel_record(payload, frame, c.accel)
         IN  [raised |-> r.raised, session |-> c.session,
              accel |-> r.map, gyro |-> c.gyro]
    ELSE IF rtype = RECORD_GYRO
    THEN LET r == _parse_gyro_record(payload, frame, c.gyro)
         IN  [raised |-> r.raised, session |-> c.session,
              accel |-> c.accel, gyro |-> r.map]
    ELSE IF rtype = RECORD_TERMINATOR
    THEN [raised |-> FALSE, session |-> _parse_terminator_record(payload, c.session),
          accel |-> c.accel, gyro |-> c.gyro]
    ELSE [raised |-> FALSE, session |-> c.session, accel |-> c.accel, gyro |-> c.gyro]

\* mutant: no break after the terminator
BreaksAfter_never(rtype) == FALSE

\* whether the scan loop ends after a dispatched record of this type
BreaksAfter(rtype) == rtype = RECORD_TERMINATOR

\* One evaluation of the while condition and, when it holds, one iteration of
\* the loop body.  c is [session, accel, gyro, offset]; the result adds
\* outcome: "continue", or why the loop ended ("eof": the condition is false,
\* "truncated", "terminator", "raised": a decoder raised struct.error).
_parse_records_step(d, c) ==
    IF ~(c.offset + RECORD_HEADER_SIZE <= ScanEnd(d))
    THEN [session |-> c.session, accel |-> c.accel, gyro |-> c.gyro,
          offset |-> c.offset, outcome |-> "eof"]
    ELSE IF PayloadEnd(d, c.offset) > ScanEnd(d)
    THEN [session |-> c.session, accel |-> c.accel, gyro |-> c.gyro,
          offset |-> c.offset, outcome |-> "truncated"]
    ELSE LET h == RecordHeader(d, c.offset)
             counted == [session |-> CountRecord(c.session, h.rtype),
                         accel |-> c.accel, gyro |-> c.gyro]
             r == Dispatch(h.rtype, PayloadOf(d, c.offset), FrameOf(h), counted)
         IN  IF r.raised
             THEN [session |-> r.session, accel |-> r.accel, gyro |-> r.gyro,
                   offset |-> c.offset, outcome |-> "raised"]
             ELSE [session |-> r.session, accel |-> r.accel, gyro |-> r.gyro,
                   offset |-> PayloadEnd(d, c.offset),
                   outcome |-> IF BreaksAfter(h.rtype) THEN "terminator"
                               ELSE "continue"]

\* the while loop of _parse_records from the decode state c on, to its end
RECURSIVE _parse_records_loop(_, _)
_parse_records_loop(d, c) ==
    LET r == _parse_records_step(d, c)
    IN  IF r.outcome = "continue"
        THEN _parse_records_loop(d, [session |-> r.session, accel |-> r.accel,
                                     gyro |-> r.gyro, offset |-> r.offset])
        ELSE r

\* parse on the bytes d, run on its own from start to end: the exception it
\* raises ("none": it returns) and the session it has built
parse(d) ==
    IF _validate_magic(d) # "none"
    THEN [err |-> _validate_magic(d), session |-> NewSession(Len(d))]
    ELSE LET meta == _parse_meta_header(d, NewSession(Len(d)))
         IN  IF meta.err # "none" THEN meta
             ELSE LET r == _parse_records_loop(d,
                              [session |-> meta.session, accel |-> EmptyMap,
                               gyro |-> EmptyMap,
                               offset |-> Len(RKD_MAGIC) + META_HEADER_SIZE])
                  IN  IF r.outcome = "raised"
                      THEN [err |-> "struct.error", session |-> r.session]
                      ELSE [err |-> "none",
                            session |-> _merge_imu(r.session, r.accel, r.gyro)]

(***************************************************************************)
(* export_csv: the walk of imu_frames against gps_fixes                    *)
(*                                                                         *)
(* An interpolated value is the exact fraction [n, d] (n / d, d > 0); the  *)
(* interpolation parameter t is one too.  gps_idx is 0-based as in the     *)
(* code: gps_fixes[gps_idx] is fixes[gps_idx + 1] here.  Of a row's        *)
(* columns the model keeps the GPS-derived ones, the IMU ones, turn rate   *)
(* and braking; pitch, bank and g_total are trigonometric functions of the *)
(* IMU columns alone.  The cumulative distance is kept as the pair of      *)
(* positions each _haversine call is given.                                *)
(***************************************************************************)
\* the locals of export_csv before the call
CsvIdle == [gps_idx |-> 0, i |-> 0, prev |-> <<>>, file |-> "none",
            warned |-> FALSE, reported |-> 0]

\* heading_raw / 100000.0: the raw units of one degree
HEADING_UNITS_PER_DEGREE == 100000

Whole(v) == [n |-> v, d |-> 1]

\* _lerp(a, b, t) = a + (b - a) * t
_lerp(a, b, t) == [n |-> a * t.d + (b - a) * t.n, d |-> t.d]

\* int(_lerp(g0.utc_ms, g1.utc_ms, t)) on [s, ms] pairs; the value is positive,
\* so int() is the floor
lerp_utc_ms(u0, u1, t) ==
    LET diff == (u1.s - u0.s) * 1000 + (u1.ms - u0.ms)
        ms   == u0.ms + ((diff * t.n) \div t.d)
    IN  [s |-> u0.s + (ms \div 1000), ms |-> ms % 1000]

\* mutant: no wraparound, the difference taken as b - a
_lerp_angle_without_wraparound(a, b, t) ==
    LET full == 360 * HEADING_UNITS_PER_DEGREE
        diff == b - a
    IN  [n |-> (a * t.d + diff * t.n) % (full * t.d), d |-> t.d]

\* _lerp_angle(a, b, t)
_lerp_angle(a, b, t) ==
    LET half == 180 * HEADING_UNITS_PER_DEGREE
        full == 360 * HEADING_UNITS_PER_DEGREE
        diff == ((b - a + half) % full) - half
    IN  [n |-> (a * t.d + diff * t.n) % (full * t.d), d |-> t.d]

\* mutant: the frames before the first fix are not skipped
SkipsFrame_after_the_last_only(fixes, f) == f > fixes[Len(fixes)].frame

\* mutant: the frames of the first and of the last fix skipped too
SkipsFrame_at_the_ends(fixes, f) == f <= fixes[1].frame \/ f >= fixes[Len(fixes)].frame

\* if imu.frame < first_gps_frame or imu.frame > last_gps_frame: continue
SkipsFrame(fixes, f) == f < fixes[1].frame \/ f > fixes[Len(fixes)].frame

\* mutant: the index advances only past fixes strictly below the IMU frame
RECURSIVE AdvanceGpsIdx_strictly_below(_, _, _)
AdvanceGpsIdx_strictly_below(fixes, idx, f) ==
    IF idx < Len(fixes) - 1 /\ fixes[idx + 2].frame < f
    THEN AdvanceGpsIdx_strictly_below(fixes, idx + 1, f)
    ELSE idx

\* while gps_idx < len(gps_fixes) - 1 and gps_fixes[gps_idx + 1].frame <= imu.frame
RECURSIVE AdvanceGpsIdx(_, _, _)
AdvanceGpsIdx(fixes, idx, f) ==
    IF idx < Len(fixes) - 1 /\ fixes[idx + 2].frame <= f
    THEN AdvanceGpsIdx(fixes, idx + 1, f)
    ELSE idx

\* t = (imu.frame - g0.frame) / frame_span if frame_span > 0 else 0.0
InterpolationT(g0, g1, f) ==
    LET frame_span == g1.frame - g0.frame
    IN  IF frame_span > 0 THEN [n |-> f - g0.frame, d |-> frame_span]
        ELSE [n |-> 0, d |-> 1]

\* mutant: an IMU frame on the bracketing fix's own frame uses the fix directly
Interpolates_off_the_fix_only(fixes, idx, f) ==
    idx < Len(fixes) - 1 /\ f # fixes[idx + 1].frame

\* whether the row takes the interpolation branch: a later fix exists
Interpolates(fixes, idx, f) == idx < Len(fixes) - 1

\* the GPS-derived fields of the row for IMU frame f with the bracket index idx
GpsFieldsAt(fixes, idx, f) ==
    LET g0 == fixes[idx + 1]
    IN  IF Interpolates(fixes, idx, f)
        THEN LET g1 == fixes[idx + 2]
                 t  == InterpolationT(g0, g1, f)
             IN  [branch |-> "interpolate", t |-> t,
                  utc_ms |-> lerp_utc_ms(g0.utc_ms, g1.utc_ms, t),
                  lat |-> _lerp(g0.latitude, g1.latitude, t),
                  lon |-> _lerp(g0.longitude, g1.longitude, t),
                  speed |-> _lerp(g0.speed_ms, g1.speed_ms, t),
                  alt |-> _lerp(g0.altitude_m, g1.altitude_m, t),
                  heading |-> _lerp_angle(g0.heading_deg, g1.heading_deg, t),
                  vspeed_cms |-> _lerp(g0.vertical_speed_cms, g1.vertical_speed_cms, t),
                  sats |-> g0.satellites]
        ELSE [branch |-> "direct", t |-> Whole(0),
              utc_ms |-> g0.utc_ms,
              lat |-> Whole(g0.latitude),
              lon |-> Whole(g0.longitude),
              speed |-> Whole(g0.speed_ms),
              alt |-> Whole(g0.altitude_m),
              heading |-> Whole(g0.heading_deg),
              vspeed_cms |-> Whole(g0.vertical_speed_cms),
              sats |-> g0.satellites]

\* braking = 1 if g_lon < -0.05 else 0, with g_lon = accel_x / 9.81:
\* accel_x is in 1e-5 m/s^2, and 0.05 * 9.81 m/s^2 is 49050 of them
Braking(imu) == IF imu.accel_x < -49050 THEN 1 ELSE 0

\* the row written for imu with the bracket index idx; dist_from is the
\* previous row's position (<<>>: None), what _haversine is called with
CsvRow(fixes, idx, imu, prev) ==
    [frame |-> imu.frame, gps_idx |-> idx, gps |-> GpsFieldsAt(fixes, idx, imu.frame),
     accel |-> <<imu.accel_x, imu.accel_y, imu.accel_z>>,
     gyro |-> <<imu.gyro_x, imu.gyro_y, imu.gyro_z>>,
     turn_rate |-> imu.gyro_z, braking |-> Braking(imu), dist_from |-> prev]

\* rows = sum(1 for imu in imu_frames if first_gps_frame <= imu.frame <= last_gps_frame)
ReportedRows(s) ==
    Cardinality({k \in 1..Len(s.imu_frames) :
                    /\ s.gps_fixes[1].frame <= s.imu_frames[k].frame
                    /\ s.imu_frames[k].frame <= s.gps_fixes[Len(s.gps_fixes)].frame})

\* mutant: the previous point of the distance is the bracketing fix's position
export_csv_step_distance_from_fix(s, c, out) ==
    LET imu == s.imu_frames[c.i + 1]
    IN  IF SkipsFrame(s.gps_fixes, imu.frame)
        THEN [csv |-> [c EXCEPT !.i = c.i + 1], rows |-> out]
        ELSE LET idx == AdvanceGpsIdx(s.gps_fixes, c.gps_idx, imu.frame)
                 row == CsvRow(s.gps_fixes, idx, imu, c.prev)
             IN  [csv |-> [c EXCEPT !.i = c.i + 1, !.gps_idx = idx,
                                    !.prev = <<Whole(s.gps_fixes[idx + 1].latitude),
                                               Whole(s.gps_fixes[idx + 1].longitude)>>],
                  rows |-> Append(out, row)]

\* one pass of "for imu in imu_frames": c is export_csv's locals, out its rows
export_csv_step(s, c, out) ==
    LET imu == s.imu_frames[c.i + 1]
    IN  IF SkipsFrame(s.gps_fixes, imu.frame)
        THEN [csv |-> [c EXCEPT !.i = c.i + 1], rows |-> out]
        ELSE LET idx == AdvanceGpsIdx(s.gps_fixes, c.gps_idx, imu.frame)
                 row == CsvRow(s.gps_fixes, idx, imu, c.prev)
             IN  [csv |-> [c EXCEPT !.i = c.i + 1, !.gps_idx = idx,
                                    !.prev = <<row.gps.lat, row.gps.lon>>],
                  rows |-> Append(out, row)]

(***************************************************************************)
(* Input files, built the way the test helpers build them                  *)
(***************************************************************************)
\* struct.pack("<H", v)
pack_H(v) == <<v % 256, v \div 256>>

\* struct.pack("<h", v)
pack_h(v) == IF v >= 0 THEN pack_H(v) ELSE pack_H(v + 65536)

\* struct.pack("<I", v), for v < 2^31
pack_I(v) == <<v % 256, (v \div 256) % 256, (v \div 65536) % 256, v \div 16777216>>

\* struct.pack("<i", v): two's complement (v + 2^32 has v + 2^31's low 31 bits)
pack_i(v) ==
    IF v >= 0 THEN pack_I(v)
    ELSE LET w == (v + 2147483647) + 1
         IN  <<w % 256, (w \div 256) % 256, (w \div 65536) % 256,
               (w \div 16777216) + 128>>

Zeros(n) == [i \in 1..n |-> 0]

\* _meta_header(car_id, timestamp)
_meta_header(car_id, timestamp) ==
    pack_I(1343488) \o pack_I(0) \o pack_I(1) \o pack_I(0)
      \o pack_I(car_id) \o pack_I(timestamp) \o pack_I(0)

\* a record header declaring payload_size bytes of payload
_record_header(crc, rtype, payload_size, frame) ==
    pack_H(crc) \o pack_H(rtype) \o pack_H(payload_size)
      \o pack_H(frame % 65536) \o pack_H(frame \div 65536)

\* _record(rtype, payload, frame)
_record(rtype, payload, frame) ==
    _record_header(0, rtype, Len(payload), frame) \o payload

\* _gps_payload(gps_ts, sats, lat_raw, lon_raw, speed_raw, heading_raw, alt_raw, vspeed)
_gps_payload(gps_ts, sats, lat_raw, lon_raw, speed_raw, heading_raw, alt_raw, vspeed) ==
    pack_I(3) \o pack_I(gps_ts) \o pack_h(sats) \o pack_h(0)
      \o pack_i(lat_raw) \o pack_i(lon_raw) \o pack_i(speed_raw)
      \o pack_i(heading_raw) \o pack_i(alt_raw) \o pack_i(vspeed)

\* struct.pack("<3i", x, y, z)
_imu_payload(x, y, z) == pack_i(x) \o pack_i(y) \o pack_i(z)

TestCarId == 11098

TestSessionTimestamp == 1617532800

GpsPayloadA == _gps_payload(1302000000, 18, 503000000, 46500000, 1000, 37000000, 250000, 10)

GpsPayloadB == _gps_payload(1302000010, 17, 503000900, 46499000, 1500, 1000000, 251000, -20)

\* The records the input streams are made of.
Catalogue ==
    << _record(RECORD_HEADER, <<65, 0, 66, 0>>, 0),
       _record(RECORD_GPS, GpsPayloadA, 2),
       _record(RECORD_GPS, GpsPayloadB, 1),
       _record(RECORD_GPS, SubSeq(GpsPayloadA, 1, GPS_PAYLOAD_SIZE - 1), 3),
       _record(RECORD_GPS, GpsPayloadA \o <<0>>, 3),
       _record(RECORD_ACCEL, _imu_payload(10, -20, 1000), 1),
       _record(RECORD_ACCEL, _imu_payload(30, 40, 990), 2),
       _record(RECORD_ACCEL, SubSeq(_imu_payload(50, 60, 70), 1, IMU_PAYLOAD_SIZE - 1), 3),
       _record(RECORD_ACCEL, _imu_payload(50, 60, 70) \o <<0>>, 3),
       _record(RECORD_GYRO, _imu_payload(28, -56, 84), 1),
       _record(RECORD_GYRO, _imu_payload(140, 0, -28), 3),
       _record(RECORD_GYRO, SubSeq(_imu_payload(1, 2, 3), 1, IMU_PAYLOAD_SIZE - 1), 2),
       _record(RECORD_GYRO, _imu_payload(1, 2, 3) \o <<0>>, 2),
       _record(RECORD_TERMINATOR, pack_I(1617536400) \o Zeros(8), 0),
       _record(RECORD_TERMINATOR, <<1, 2>>, 0),
       _record(RECORD_PERIODIC, pack_I(7), 4),
       _record(99, <<>>, 5),
       _record_header(0, RECORD_GPS, 100, 6),
       _record(RECORD_TIMESTAMP, Zeros(4), 7) >>

\* the most records of a generated stream
MaxRecords == 2

\* the index sequences of the streams of at most n records
StreamsUpTo(n) == UNION {[1..k -> 1..Len(Catalogue)] : k \in 0..n}

RECURSIVE Concat(_, _)
Concat(cat, idx) ==
    IF idx = <<>> THEN <<>> ELSE cat[Head(idx)] \o Concat(cat, Tail(idx))

\* what follows the last record: the 2-byte trailing checksum, whole, partial or missing
Tails == {<<0, 0>>, <<0>>, <<>>}

\* _minimal_rkd(*records), with the tail given
_minimal_rkd(records, tail) ==
    RKD_MAGIC \o _meta_header(TestCarId, TestSessionTimestamp) \o records \o tail

\* Longer streams, after the test suite's crafted files: GPS, accelerometer and
\* gyroscope of one session; both channels over three frames; every record
\* type with records after the terminator; a truncated record after others;
\* a frame's gyroscope record five records of other types ahead of its
\* accelerometer record.
ScenarioStreams ==
    { <<3, 6, 10>>,
      <<7, 6, 11, 10>>,
      <<1, 3, 2, 16, 6, 10, 17, 14, 2, 7>>,
      <<3, 6, 12, 18, 2>>,
      <<2, 7, 8, 4, 15, 3>>,
      <<10, 16, 19, 2, 17, 1, 6>> }

\* Files whose signature and meta header are present
ValidInputs ==
    {_minimal_rkd(Concat(Catalogue, idx), tail) :
        idx \in StreamsUpTo(MaxRecords) \cup ScenarioStreams, tail \in Tails}

\* Files parse rejects: too small, a wrong signature, too small for the meta header
FatalInputs ==
    LET good == _minimal_rkd(Catalogue[2], <<0, 0>>)
        bad  == <<88>> \o Tail(good)
    IN  {<<>>, SubSeq(good, 1, 7), SubSeq(bad, 1, 7), SubSeq(bad, 1, 8),
         SubSeq(bad, 1, 20), SubSeq(bad, 1, 36), bad,
         SubSeq(good, 1, 8), SubSeq(good, 1, 35)}

\* HEADER payloads: KEY\0VALUE\0 and its edge cases (no null, only nulls, an
\* empty key, nulls inside the value, bytes outside ASCII), with a terminator
\* and a truncated HEADER record to end a scan early
HeaderCatalogue ==
    << _record(RECORD_HEADER, <<65, 0, 66, 0>>, 0),
       _record(RECORD_HEADER, <<65, 0, 67>>, 0),
       _record(RECORD_HEADER, <<65, 0, 0>>, 0),
       _record(RECORD_HEADER, <<65>>, 0),
       _record(RECORD_HEADER, <<>>, 0),
       _record(RECORD_HEADER, <<0, 0>>, 0),
       _record(RECORD_HEADER, <<0, 66>>, 0),
       _record(RECORD_HEADER, <<65, 0, 66, 0, 67, 0>>, 0),
       _record(RECORD_HEADER, <<65, 0, 0, 66>>, 0),
       _record(RECORD_HEADER, <<128, 0, 66>>, 0),
       _record(RECORD_HEADER, <<129, 0, 67>>, 0),
       _record(RECORD_HEADER, <<66, 0, 128, 0>>, 0),
       _record(RECORD_TERMINATOR, pack_I(1617536400), 0),
       _record_header(0, RECORD_HEADER, 100, 0) \o <<65, 0, 66>> >>

HeaderStreamsUpTo(n) == UNION {[1..k -> 1..Len(HeaderCatalogue)] : k \in 0..n}

HeaderInputs ==
    {_minimal_rkd(Concat(HeaderCatalogue, idx), <<0, 0>>) :
        idx \in HeaderStreamsUpTo(MaxRecords)}

Inputs == ValidInputs \cup FatalInputs

(***************************************************************************)
(* The parts of the state a run of parse or of export_csv alone never uses *)
(***************************************************************************)
\* export_gpx before the call
GpxIdle == [file |-> "none", warned |-> FALSE, trkpts |-> <<>>]

\* create_sample_rkd before the call
SampleIdle == [data |-> <<>>, out |-> <<>>, offset |-> 0, gps_count |-> 0,
               max_gps_fixes |-> 0, copied |-> <<>>, written |-> FALSE]

\* no function of the module called
ResultIdle == [fn |-> "none", args |-> <<>>, done |-> FALSE, value |-> 0]

AuxIdle ==
    /\ gpx = GpxIdle
    /\ runs = <<>>
    /\ sample = SampleIdle
    /\ calls = <<>>
    /\ parsers = <<>>
    /\ result = ResultIdle

(***************************************************************************)
(* RKDParser.parse, one step at a time                                     *)
(***************************************************************************)
\* with open(path, "rb") as f: data = f.read(); session = RKDSession(...)
Init ==
    /\ data \in Inputs
    /\ pc = "validate"
    /\ err = "none"
    /\ session = NewSession(Len(data))
    /\ has_staging = FALSE
    /\ accel_by_frame = EmptyMap
    /\ gyro_by_frame = EmptyMap
    /\ offset = 0
    /\ scanned = <<>>
    /\ stop = "none"
    /\ csv = CsvIdle
    /\ rows = <<>>
    /\ AuxIdle

\* parse on files whose records are HEADER records
InitHeader ==
    /\ data \in HeaderInputs
    /\ pc = "validate"
    /\ err = "none"
    /\ session = NewSession(Len(data))
    /\ has_staging = FALSE
    /\ accel_by_frame = EmptyMap
    /\ gyro_by_frame = EmptyMap
    /\ offset = 0
    /\ scanned = <<>>
    /\ stop = "none"
    /\ csv = CsvIdle
    /\ rows = <<>>
    /\ AuxIdle

\* self._validate_magic(data)
ValidateMagic ==
    /\ pc = "validate"
    /\ err' = _validate_magic(data)
    /\ pc' = IF err' = "none" THEN "meta" ELSE "raised"
    /\ UNCHANGED <<data, session, has_staging, accel_by_frame, gyro_by_frame,
                   offset, scanned, stop, csv, rows>>
    /\ UNCHANGED aux_vars

\* self._parse_meta_header(data, session)
ParseMetaHeader ==
    /\ pc = "meta"
    /\ LET r == _parse_meta_header(data, session)
       IN  /\ err' = r.err
           /\ session' = r.session
           /\ pc' = IF r.err = "none" THEN "records" ELSE "raised"
    /\ UNCHANGED <<data, has_staging, accel_by_frame, gyro_by_frame,
                   offset, scanned, stop, csv, rows>>
    /\ UNCHANGED aux_vars

\* _parse_records up to its loop: the cursor and the two fresh staging lookups
ParseRecordsBegin ==
    /\ pc = "records"
    /\ offset' = Len(RKD_MAGIC) + META_HEADER_SIZE
    /\ has_staging' = TRUE
    /\ accel_by_frame' = EmptyMap
    /\ gyro_by_frame' = EmptyMap
    /\ pc' = "scan"
    /\ UNCHANGED <<data, err, session, scanned, stop, csv, rows>>
    /\ UNCHANGED aux_vars

\* one test of the while condition of _parse_records and one iteration of its body
ParseRecordsStep ==
    /\ pc = "scan"
    /\ LET r == _parse_records_step(data,
                   [session |-> session, accel |-> accel_by_frame,
                    gyro |-> gyro_by_frame, offset |-> offset])
       IN  /\ session' = r.session
           /\ accel_by_frame' = r.accel
           /\ gyro_by_frame' = r.gyro
           /\ offset' = r.offset
           /\ scanned' = IF r.outcome \in {"continue", "terminator", "raised"}
                         THEN Append(scanned, offset) ELSE scanned
           /\ stop' = IF r.outcome = "continue" THEN stop ELSE r.outcome
           /\ err' = IF r.outcome = "raised" THEN "struct.error" ELSE err
           /\ pc' = CASE r.outcome = "continue" -> "scan"
                      [] r.outcome = "raised" -> "raised"
                      [] OTHER -> "merge"
    /\ UNCHANGED <<data, has_staging, csv, rows>>
    /\ UNCHANGED aux_vars

\* self._merge_imu(session); return session
MergeImu ==
    /\ pc = "merge"
    /\ session' = _merge_imu(session, accel_by_frame, gyro_by_frame)
    /\ has_staging' = FALSE
    /\ accel_by_frame' = EmptyMap
    /\ gyro_by_frame' = EmptyMap
    /\ pc' = "returned"
    /\ UNCHANGED <<data, err, offset, scanned, stop, csv, rows>>
    /\ UNCHANGED aux_vars

Next ==
    \/ ValidateMagic
    \/ ParseMetaHeader
    \/ ParseRecordsBegin
    \/ ParseRecordsStep
    \/ MergeImu

Spec == Init /\ [][Next]_vars

SpecHeader == InitHeader /\ [][Next]_vars

(***************************************************************************)
(* export_csv on a finished Session                                        *)
(***************************************************************************)
\* GPSFix(frame, gps_timestamp, utc_ms, satellites, latitude, longitude, speed_ms,
\*        heading_deg, altitude_m, vertical_speed_cms), utc_ms as the decoder sets it
GPSFix(frame, ts, sats, lat, lon, speed, heading, alt, vspeed) ==
    [frame |-> frame, gps_timestamp |-> ts, utc_ms |-> _gps_to_utc_ms(ts),
     satellites |-> sats, latitude |-> lat, longitude |-> lon, speed_ms |-> speed,
     heading_deg |-> heading, altitude_m |-> alt, vertical_speed_cms |-> vspeed]

\* The fixes sessions are made of: frames 2, 4, 4 again and 6; headings of
\* 370, 10, 190 and 350 degrees.
FixPool ==
    << GPSFix(2, 1302000000, 18, 1000, 2000, 1000, 37000000, 250, 10),
       GPSFix(4, 1302000001, 17, 1040, 1960, 1500, 1000000, 290, -20),
       GPSFix(4, 1302000001, 16, 1100, 1900, 1700, 19000000, 300, 0),
       GPSFix(6, 1302000003, 15, 1070, 2100, 900, 35000000, 270, 30) >>

\* the most GPS fixes of a generated session
MaxFixes == 3

\* the highest IMU frame number of a generated session
MaxImuFrame == 6

\* the IMU frame a session holds for frame f
ImuAt(f) == IMUFrame(f, <<981 * (40 * f - 100), -981 * f, 981 * 1000>>, <<28 * f, 0, -3 * f>>)

\* gps_fixes in any order of arrival; imu_frames ascending, one per frame, as
\* _merge_imu builds them
CsvSessions ==
    {[NewSession(0) EXCEPT
         !.gps_fixes = [k \in 1..Len(idx) |-> FixPool[idx[k]]],
         !.imu_frames = [k \in 1..Cardinality(F) |-> ImuAt(sorted(F)[k])]] :
      idx \in UNION {[1..n -> 1..Len(FixPool)] : n \in 0..MaxFixes},
      F \in SUBSET (1..MaxImuFrame)}

InitCsv ==
    /\ session \in CsvSessions
    /\ data = <<>>
    /\ pc = "returned"
    /\ err = "none"
    /\ has_staging = FALSE
    /\ accel_by_frame = EmptyMap
    /\ gyro_by_frame = EmptyMap
    /\ offset = 0
    /\ scanned = <<>>
    /\ stop = "none"
    /\ csv = CsvIdle
    /\ rows = <<>>
    /\ AuxIdle

\* mutant: the bracket index and the previous position kept from an earlier call
ExportCsvBegin_resuming ==
    /\ pc = "returned"
    /\ IF session.imu_frames = <<>> \/ session.gps_fixes = <<>>
       THEN /\ csv' = [csv EXCEPT !.warned = TRUE]
            /\ pc' = "csv_returned"
       ELSE /\ csv' = [csv EXCEPT !.file = "open", !.i = 0, !.reported = 0]
            /\ pc' = "csv_rows"
    /\ rows' = <<>>
    /\ UNCHANGED parse_vars
    /\ UNCHANGED aux_vars

\* export_csv up to its loop: the warning and return, or the file opened and
\* the column row written
ExportCsvBegin ==
    /\ pc = "returned"
    /\ IF session.imu_frames = <<>> \/ session.gps_fixes = <<>>
       THEN /\ csv' = [csv EXCEPT !.warned = TRUE]
            /\ pc' = "csv_returned"
       ELSE /\ csv' = [CsvIdle EXCEPT !.file = "open"]
            /\ pc' = "csv_rows"
    /\ rows' = <<>>
    /\ UNCHANGED parse_vars
    /\ UNCHANGED aux_vars

\* one pass of the loop over imu_frames; past the last frame the file is
\* closed and the row count is reported
ExportCsvStep ==
    /\ pc = "csv_rows"
    /\ IF csv.i < Len(session.imu_frames)
       THEN LET r == export_csv_step(session, csv, rows)
            IN  /\ csv' = r.csv
                /\ rows' = r.rows
                /\ pc' = "csv_rows"
       ELSE /\ csv' = [csv EXCEPT !.file = "closed", !.reported = ReportedRows(session)]
            /\ rows' = rows
            /\ pc' = "csv_returned"
    /\ UNCHANGED parse_vars
    /\ UNCHANGED aux_vars

NextCsv ==
    \/ ExportCsvBegin
    \/ ExportCsvStep

SpecCsv == InitCsv /\ [][NextCsv]_vars

(***************************************************************************)
(* create_sample_rkd, and parse on the file it writes                      *)
(***************************************************************************)
\* create_sample_rkd up to its loop: the signature and meta header copied
create_sample_rkd_begin(d, max_gps_fixes) ==
    [data |-> d, out |-> Slice(d, 0, Len(RKD_MAGIC) + META_HEADER_SIZE),
     offset |-> Len(RKD_MAGIC) + META_HEADER_SIZE, gps_count |-> 0,
     max_gps_fixes |-> max_gps_fixes, copied |-> <<>>, written |-> FALSE]

\* mutant: the GPS record that exceeds max_gps_fixes is copied before the loop ends
create_sample_rkd_step_copying_first(c) ==
    LET d   == c.data
        end == Len(d) - TRAILING_CRC_SIZE
    IN  IF ~(c.offset + RECORD_HEADER_SIZE <= end)
        THEN [locals |-> c, more |-> FALSE]
        ELSE LET h          == RecordHeader(d, c.offset)
                 record_end == c.offset + RECORD_HEADER_SIZE + h.payload_size
                 gps_count  == IF h.rtype = RECORD_GPS THEN c.gps_count + 1
                               ELSE c.gps_count
                 copied     == [c EXCEPT !.gps_count = gps_count,
                                         !.out = c.out \o Slice(d, c.offset, record_end),
                                         !.copied = Append(c.copied, c.offset)]
             IN  IF record_end > end THEN [locals |-> c, more |-> FALSE]
                 ELSE IF h.rtype = RECORD_GPS /\ gps_count > c.max_gps_fixes
                 THEN [locals |-> copied, more |-> FALSE]
                 ELSE IF h.rtype = RECORD_TERMINATOR
                 THEN [locals |-> copied, more |-> FALSE]
                 ELSE [locals |-> [copied EXCEPT !.offset = record_end], more |-> TRUE]

\* one test of the while condition of create_sample_rkd and one pass of its
\* body: the locals after it and whether the loop goes on
create_sample_rkd_step(c) ==
    LET d   == c.data
        end == Len(d) - TRAILING_CRC_SIZE
    IN  IF ~(c.offset + RECORD_HEADER_SIZE <= end)
        THEN [locals |-> c, more |-> FALSE]
        ELSE LET h          == RecordHeader(d, c.offset)
                 record_end == c.offset + RECORD_HEADER_SIZE + h.payload_size
                 gps_count  == IF h.rtype = RECORD_GPS THEN c.gps_count + 1
                               ELSE c.gps_count
                 copied     == [c EXCEPT !.gps_count = gps_count,
                                         !.out = c.out \o Slice(d, c.offset, record_end),
                                         !.copied = Append(c.copied, c.offset)]
             IN  IF record_end > end THEN [locals |-> c, more |-> FALSE]
                 ELSE IF h.rtype = RECORD_GPS /\ gps_count > c.max_gps_fixes
                 THEN [locals |-> [c EXCEPT !.gps_count = gps_count], more |-> FALSE]
                 ELSE IF h.rtype = RECORD_TERMINATOR
                 THEN [locals |-> copied, more |-> FALSE]
                 ELSE [locals |-> [copied EXCEPT !.offset = record_end], more |-> TRUE]

\* the records the sampled files are made of: GPS records (whole, short,
\* long), an accelerometer record, a terminator, a truncated record
SampleCatalogue == <<2, 3, 4, 5, 6, 14, 18>>

\* the most GPS fixes asked of create_sample_rkd
MaxSampleFixes == 2

SampleStreams ==
    {[k \in 1..Len(idx) |-> SampleCatalogue[idx[k]]] :
        idx \in UNION {[1..n -> 1..Len(SampleCatalogue)] : n \in 0..MaxRecords}}
      \cup ScenarioStreams

SampleInputs ==
    {_minimal_rkd(Concat(Catalogue, idx), tail) : idx \in SampleStreams, tail \in Tails}

\* create_sample_rkd(input_path, output_path, max_gps_fixes) is called
InitSample ==
    /\ \E d \in SampleInputs, n \in 0..MaxSampleFixes :
          sample = create_sample_rkd_begin(d, n)
    /\ data = <<>>
    /\ pc = "sample"
    /\ err = "none"
    /\ session = NewSession(0)
    /\ has_staging = FALSE
    /\ accel_by_frame = EmptyMap
    /\ gyro_by_frame = EmptyMap
    /\ offset = 0
    /\ scanned = <<>>
    /\ stop = "none"
    /\ csv = CsvIdle
    /\ rows = <<>>
    /\ gpx = GpxIdle
    /\ runs = <<>>
    /\ calls = <<>>
    /\ parsers = <<>>
    /\ result = ResultIdle

\* one pass of the copy loop
CreateSampleStep ==
    /\ pc = "sample"
    /\ LET r == create_sample_rkd_step(sample)
       IN  /\ sample' = r.locals
           /\ pc' = IF r.more THEN "sample" ELSE "sample_end"
    /\ UNCHANGED <<parse_vars, csv_vars, gpx, runs, calls, parsers, result>>

\* out.extend(b"\x00\x00"); Path(output_path).write_bytes(bytes(out))
CreateSampleWrite ==
    /\ pc = "sample_end"
    /\ sample' = [sample EXCEPT !.out = sample.out \o <<0, 0>>, !.written = TRUE]
    /\ pc' = "sample_written"
    /\ UNCHANGED <<parse_vars, csv_vars, gpx, runs, calls, parsers, result>>

\* parse is called on the file written: data = f.read(); session = RKDSession(...)
ParseSample ==
    /\ pc = "sample_written"
    /\ data' = sample.out
    /\ session' = NewSession(Len(sample.out))
    /\ pc' = "validate"
    /\ UNCHANGED <<err, has_staging, accel_by_frame, gyro_by_frame, offset, scanned,
                   stop, csv_vars, aux_vars>>

NextSample ==
    \/ CreateSampleStep
    \/ CreateSampleWrite
    \/ ParseSample
    \/ Next

SpecSample == InitSample /\ [][NextSample]_vars

(***************************************************************************)
(* Two calls of parse on two files whose steps interleave.  The staging    *)
(* lookups are attributes of the RKDParser object (self._accel_by_frame,   *)
(* self._gyro_by_frame): two calls through one object use the same pair.   *)
(* A step is one statement of parse or one pass of the scan loop.          *)
(***************************************************************************)
\* an RKDParser object: it has no staging attributes until _parse_records sets them
NewParser == [has_staging |-> FALSE, accel |-> EmptyMap, gyro |-> EmptyMap]

\* the locals of a call of parse on the bytes d through the parser object p
NewCall(d, p) ==
    [data |-> d, pc |-> "validate", err |-> "none", session |-> NewSession(Len(d)),
     offset |-> 0, parser |-> p]

\* the files the two calls parse: record streams with both channels of a
\* frame, one channel, a fix, a short payload, a terminator, no record
TwoCallStreams ==
    {<<>>, <<6, 10>>, <<7, 11>>, <<2, 6>>, <<10, 14, 6>>, <<8, 10>>, <<6, 9>>}

TwoCallInputs ==
    {_minimal_rkd(Concat(Catalogue, idx), <<0, 0>>) : idx \in TwoCallStreams}
      \cup {SubSeq(RKD_MAGIC, 1, 7)}

InitTwoCalls ==
    /\ \E d1 \in TwoCallInputs, d2 \in TwoCallInputs, p \in 1..2 :
          /\ d1 # d2
          /\ calls = <<NewCall(d1, 1), NewCall(d2, p)>>
    /\ parsers = <<NewParser, NewParser>>
    /\ data = <<>>
    /\ pc = "callers"
    /\ err = "none"
    /\ session = NewSession(0)
    /\ has_staging = FALSE
    /\ accel_by_frame = EmptyMap
    /\ gyro_by_frame = EmptyMap
    /\ offset = 0
    /\ scanned = <<>>
    /\ stop = "none"
    /\ csv = CsvIdle
    /\ rows = <<>>
    /\ gpx = GpxIdle
    /\ runs = <<>>
    /\ sample = SampleIdle
    /\ result = ResultIdle

TwoCallsRest == <<parse_vars, pc, csv_vars, gpx, runs, sample, result>>

\* self._validate_magic(data) in call c
CallValidateMagic(c) ==
    /\ calls[c].pc = "validate"
    /\ LET e == _validate_magic(calls[c].data)
       IN  calls' = [calls EXCEPT ![c].err = e,
                                  ![c].pc = IF e = "none" THEN "meta" ELSE "raised"]
    /\ UNCHANGED <<parsers, TwoCallsRest>>

\* self._parse_meta_header(data, session) in call c
CallParseMetaHeader(c) ==
    /\ calls[c].pc = "meta"
    /\ LET r == _parse_meta_header(calls[c].data, calls[c].session)
       IN  calls' = [calls EXCEPT ![c].err = r.err, ![c].session = r.session,
                                  ![c].pc = IF r.err = "none" THEN "records" ELSE "raised"]
    /\ UNCHANGED <<parsers, TwoCallsRest>>

\* mutant: the lookups a parser object still holds are kept, not replaced
CallParseRecordsBegin_keeping_lookups(c) ==
    /\ calls[c].pc = "records"
    /\ calls' = [calls EXCEPT ![c].offset = Len(RKD_MAGIC) + META_HEADER_SIZE,
                               ![c].pc = "scan"]
    /\ parsers' = [parsers EXCEPT ![calls[c].parser] =
                      IF parsers[calls[c].parser].has_staging
                      THEN parsers[calls[c].parser]
                      ELSE [has_staging |-> TRUE, accel |-> EmptyMap, gyro |-> EmptyMap]]
    /\ UNCHANGED TwoCallsRest

\* _parse_records up to its loop in call c: self._accel_by_frame = {} and
\* self._gyro_by_frame = {} on the call's parser object
CallParseRecordsBegin(c) ==
    /\ calls[c].pc = "records"
    /\ calls' = [calls EXCEPT ![c].offset = Len(RKD_MAGIC) + META_HEADER_SIZE,
                               ![c].pc = "scan"]
    /\ parsers' = [parsers EXCEPT ![calls[c].parser] =
                      [has_staging |-> TRUE, accel |-> EmptyMap, gyro |-> EmptyMap]]
    /\ UNCHANGED TwoCallsRest

\* the record at off is complete and its decoder writes to a staging lookup
WritesStaging(d, off) ==
    /\ off + RECORD_HEADER_SIZE <= ScanEnd(d)
    /\ PayloadEnd(d, off) <= ScanEnd(d)
    /\ RecordHeader(d, off).rtype \in {RECORD_ACCEL, RECORD_GYRO}
    /\ RecordHeader(d, off).payload_size = IMU_PAYLOAD_SIZE

\* one pass of the scan loop in call c, on the staging lookups of its parser
\* object; a decoder that finds the attribute deleted raises AttributeError
\* after the record was counted
CallParseRecordsStep(c) ==
    /\ calls[c].pc = "scan"
    /\ LET call == calls[c]
           obj  == parsers[call.parser]
       IN  IF ~obj.has_staging /\ WritesStaging(call.data, call.offset)
           THEN /\ calls' = [calls EXCEPT
                               ![c].session = CountRecord(call.session,
                                                 RecordHeader(call.data, call.offset).rtype),
                               ![c].err = "AttributeError", ![c].pc = "raised"]
                /\ parsers' = parsers
           ELSE LET r == _parse_records_step(call.data,
                            [session |-> call.session, accel |-> obj.accel,
                             gyro |-> obj.gyro, offset |-> call.offset])
                IN  /\ calls' = [calls EXCEPT
                                   ![c].session = r.session, ![c].offset = r.offset,
                                   ![c].err = IF r.outcome = "raised" THEN "struct.error"
                                              ELSE call.err,
                                   ![c].pc = CASE r.outcome = "continue" -> "scan"
                                               [] r.outcome = "raised" -> "raised"
                                               [] OTHER -> "merge"]
                    /\ parsers' = [parsers EXCEPT ![call.parser].accel = r.accel,
                                                   ![call.parser].gyro = r.gyro]
    /\ UNCHANGED TwoCallsRest

\* self._merge_imu(session); return session in call c; the merge reads the
\* staging attributes of the parser object and deletes them
CallMergeImu(c) ==
    /\ calls[c].pc = "merge"
    /\ LET call == calls[c]
           obj  == parsers[call.parser]
       IN  IF ~obj.has_staging
           THEN /\ calls' = [calls EXCEPT ![c].err = "AttributeError", ![c].pc = "raised"]
                /\ parsers' = parsers
           ELSE /\ calls' = [calls EXCEPT
                               ![c].session = _merge_imu(call.session, obj.accel, obj.gyro),
                               ![c].pc = "returned"]
                /\ parsers' = [parsers EXCEPT ![call.parser] = NewParser]
    /\ UNCHANGED TwoCallsRest

NextTwoCalls ==
    \E c \in 1..2 :
        \/ CallValidateMagic(c)
        \/ CallParseMetaHeader(c)
        \/ CallParseRecordsBegin(c)
        \/ CallParseRecordsStep(c)
        \/ CallMergeImu(c)

SpecTwoCalls == InitTwoCalls /\ [][NextTwoCalls]_vars

\* the two calls made one after the other: the second starts when the first
\* has returned or raised
NextReuse ==
    \E c \in 1..2 :
        /\ c = 2 => calls[1].pc \in {"returned", "raised"}
        /\ \/ CallValidateMagic(c)
           \/ CallParseMetaHeader(c)
           \/ CallParseRecordsBegin(c)
           \/ CallParseRecordsStep(c)
           \/ CallMergeImu(c)

SpecReuse == InitTwoCalls /\ [][NextReuse]_vars

(***************************************************************************)
(* export_csv and export_gpx called one after the other on one Session, as *)
(* process_file calls them, any number of times in any order               *)
(***************************************************************************)
\* one <trkpt> of the GPX track: lat, lon, ele, time, sat, speed of the fix
TrackPoint(fix) ==
    [lat |-> fix.latitude, lon |-> fix.longitude, ele |-> fix.altitude_m,
     time |-> fix.utc_ms, sat |-> fix.satellites, speed |-> fix.speed_ms]

\* the most export calls made on one session
MaxExports == 2

\* sessions with no, with all and with some of the IMU frames
ExportSessions ==
    {[NewSession(0) EXCEPT
         !.gps_fixes = [k \in 1..Len(idx) |-> FixPool[idx[k]]],
         !.imu_frames = [k \in 1..Cardinality(F) |-> ImuAt(sorted(F)[k])]] :
      idx \in UNION {[1..n -> 1..Len(FixPool)] : n \in 0..MaxFixes},
      F \in {{}, 1..MaxImuFrame, {3, 4, 5}}}

InitExports ==
    /\ session \in ExportSessions
    /\ data = <<>>
    /\ pc = "returned"
    /\ err = "none"
    /\ has_staging = FALSE
    /\ accel_by_frame = EmptyMap
    /\ gyro_by_frame = EmptyMap
    /\ offset = 0
    /\ scanned = <<>>
    /\ stop = "none"
    /\ csv = CsvIdle
    /\ rows = <<>>
    /\ AuxIdle

\* process_file (or any caller holding the session) calls export_csv
CallExportCsv ==
    /\ Len(runs) < MaxExports
    /\ ExportCsvBegin

\* export_csv returns to its caller
ExportCsvReturn ==
    /\ pc = "csv_returned"
    /\ runs' = Append(runs, [fn |-> "export_csv", file |-> csv.file,
                              warned |-> csv.warned, written |-> rows])
    /\ pc' = "returned"
    /\ UNCHANGED <<parse_vars, csv_vars, gpx, sample, calls, parsers, result>>

\* mutant: the track written whether or not there are fixes
ExportGpx_writing_an_empty_track ==
    /\ pc = "returned"
    /\ Len(runs) < MaxExports
    /\ gpx' = [file |-> "written", warned |-> FALSE,
                trkpts |-> [k \in 1..Len(session.gps_fixes) |->
                               TrackPoint(session.gps_fixes[k])]]
    /\ pc' = "gpx_returned"
    /\ UNCHANGED <<parse_vars, csv_vars, runs, sample, calls, parsers, result>>

\* export_gpx: the warning and return, or the whole track built in memory and
\* written to the file at once
ExportGpx ==
    /\ pc = "returned"
    /\ Len(runs) < MaxExports
    /\ IF session.gps_fixes = <<>>
       THEN gpx' = [file |-> "none", warned |-> TRUE, trkpts |-> <<>>]
       ELSE gpx' = [file |-> "written", warned |-> FALSE,
                    trkpts |-> [k \in 1..Len(session.gps_fixes) |->
                                   TrackPoint(session.gps_fixes[k])]]
    /\ pc' = "gpx_returned"
    /\ UNCHANGED <<parse_vars, csv_vars, runs, sample, calls, parsers, result>>

\* export_gpx returns to its caller
ExportGpxReturn ==
    /\ pc = "gpx_returned"
    /\ runs' = Append(runs, [fn |-> "export_gpx", file |-> gpx.file,
                              warned |-> gpx.warned, written |-> gpx.trkpts])
    /\ pc' = "returned"
    /\ UNCHANGED <<parse_vars, csv_vars, gpx, sample, calls, parsers, result>>

NextExports ==
    \/ CallExportCsv
    \/ ExportCsvStep
    \/ ExportCsvReturn
    \/ ExportGpx
    \/ ExportGpxReturn

SpecExports == InitExports /\ [][NextExports]_vars

(***************************************************************************)
(* The properties of a Session and the utility functions, called on their  *)
(* own                                                                     *)
(***************************************************************************)
\* the fixes of the sessions the properties are read from: those of FixPool
\* and one, 10 seconds after the first, with a negative speed
PropertyFixPool ==
    FixPool \o << GPSFix(8, 1302000010, 14, 1200, 2200, -300, 9000000, 260, 5) >>

PropertySessions ==
    {[NewSession(0) EXCEPT !.gps_fixes = [k \in 1..Len(idx) |-> PropertyFixPool[idx[k]]]] :
        idx \in UNION {[1..n -> 1..Len(PropertyFixPool)] : n \in 0..MaxFixes}}

\* GPS timestamps: around the leap offset, a day, the test sessions' and the
\* last whose Unix seconds fit 31 bits
GpsSeconds ==
    {0, 1, 17, 18, 19, 20, 86400, 604800, 1000000000, 1302000000, 1302000001,
     1302000010, 1831518864, 1831518865}
      \cup {1302000000 + 3600 * k : k \in 1..48}

\* headings (1e-5 degree): 0, 10, 90, 170, 180, 190, 350, 359.99999, 370, -10, -180
Headings ==
    {0, 1000000, 9000000, 17000000, 18000000, 19000000, 35000000, 35999999,
     37000000, -1000000, -18000000}

\* interpolation parameters in [0, 1]
Parameters == {[n |-> 0, d |-> 1], [n |-> 1, d |-> 4], [n |-> 1, d |-> 3],
               [n |-> 1, d |-> 2], [n |-> 3, d |-> 4], [n |-> 1, d |-> 1]}

\* a call about to be made
Call(fn, args) == [fn |-> fn, args |-> args, done |-> FALSE, value |-> 0]

FunctionCalls ==
    {Call(fn, <<s>>) : fn \in {"duration_seconds", "max_speed_kmh", "total_distance_km"},
                       s \in PropertySessions}
      \cup {Call("_gps_to_utc_ms", <<g>>) : g \in GpsSeconds}
      \cup {Call("_lerp_angle", <<a, b, t>>) : a \in Headings, b \in Headings,
                                               t \in Parameters}

InitFunctions ==
    /\ result \in FunctionCalls
    /\ data = <<>>
    /\ pc = "call"
    /\ err = "none"
    /\ session = NewSession(0)
    /\ has_staging = FALSE
    /\ accel_by_frame = EmptyMap
    /\ gyro_by_frame = EmptyMap
    /\ offset = 0
    /\ scanned = <<>>
    /\ stop = "none"
    /\ csv = CsvIdle
    /\ rows = <<>>
    /\ gpx = GpxIdle
    /\ runs = <<>>
    /\ sample = SampleIdle
    /\ calls = <<>>
    /\ parsers = <<>>

\* the call returns v
Returns(fn, v) ==
    /\ pc = "call"
    /\ result.fn = fn
    /\ result' = [result EXCEPT !.done = TRUE, !.value = v]
    /\ pc' = "called"
    /\ UNCHANGED <<parse_vars, csv_vars, gpx, runs, sample, calls, parsers>>

ReadDurationSeconds == Returns("duration_seconds", duration_seconds(result.args[1]))

ReadMaxSpeedKmh == Returns("max_speed_kmh", max_speed_kmh(result.args[1]))

ReadTotalDistanceKm == Returns("total_distance_km", total_distance_km(result.args[1]))

CallGpsToUtcMs == Returns("_gps_to_utc_ms", _gps_to_utc_ms(result.args[1]))

CallLerpAngle ==
    Returns("_lerp_angle", _lerp_angle(result.args[1], result.args[2], result.args[3]))

NextFunctions ==
    \/ ReadDurationSeconds
    \/ ReadMaxSpeedKmh
    \/ ReadTotalDistanceKm
    \/ CallGpsToUtcMs
    \/ CallLerpAngle

SpecFunctions == InitFunctions /\ [][NextFunctions]_vars

(***************************************************************************)
(* parse followed by export_csv on the Session it returns, and export_csv  *)
(* on built Sessions, with the loops of export_csv one statement at a      *)
(* time: the for loop over imu_frames and, inside it, the while loop that  *)
(* advances gps_idx.  A call runs on: a statement that is reached is       *)
(* executed.                                                               *)
(***************************************************************************)
\* the condition of the while loop that advances gps_idx
AdvanceCondition(fixes, idx, f) ==
    idx < Len(fixes) - 1 /\ fixes[idx + 2].frame <= f

\* a file is read for parse (whole files of few records; the longer streams
\* and one with two fixes and IMU frames on them and past them, with every
\* tail; rejected files), or a Session is there already
InitWalk ==
    \/ /\ data \in {_minimal_rkd(Concat(Catalogue, idx), <<0, 0>>) :
                       idx \in StreamsUpTo(MaxRecords - 1)}
                    \cup {_minimal_rkd(Concat(Catalogue, idx), tail) :
                             idx \in ScenarioStreams \cup {<<3, 2, 7, 6, 11>>},
                             tail \in Tails}
                    \cup FatalInputs
       /\ pc = "validate"
       /\ err = "none"
       /\ session = NewSession(Len(data))
       /\ has_staging = FALSE
       /\ accel_by_frame = EmptyMap
       /\ gyro_by_frame = EmptyMap
       /\ offset = 0
       /\ scanned = <<>>
       /\ stop = "none"
       /\ csv = CsvIdle
       /\ rows = <<>>
       /\ AuxIdle
    \/ InitExports

\* for imu in imu_frames: the next IMU frame, skipped when it lies outside
\* the frames of the first and last fix
ForImuFrame ==
    /\ pc = "csv_rows"
    /\ csv.i < Len(session.imu_frames)
    /\ IF SkipsFrame(session.gps_fixes, session.imu_frames[csv.i + 1].frame)
       THEN /\ csv' = [csv EXCEPT !.i = csv.i + 1]
            /\ pc' = "csv_rows"
       ELSE /\ csv' = csv
            /\ pc' = "csv_bracket"
    /\ UNCHANGED <<parse_vars, rows, aux_vars>>

\* one pass of the while loop: gps_idx += 1
AdvanceBracket ==
    /\ pc = "csv_bracket"
    /\ AdvanceCondition(session.gps_fixes, csv.gps_idx, session.imu_frames[csv.i + 1].frame)
    /\ csv' = [csv EXCEPT !.gps_idx = csv.gps_idx + 1]
    /\ UNCHANGED <<parse_vars, pc, rows, aux_vars>>

\* the while condition is false: the rest of the pass of the for loop, from
\* g0 = gps_fixes[gps_idx] to writer.writerow
WriteRow ==
    /\ pc = "csv_bracket"
    /\ ~AdvanceCondition(session.gps_fixes, csv.gps_idx, session.imu_frames[csv.i + 1].frame)
    /\ LET row == CsvRow(session.gps_fixes, csv.gps_idx, session.imu_frames[csv.i + 1],
                         csv.prev)
       IN  /\ csv' = [csv EXCEPT !.i = csv.i + 1, !.prev = <<row.gps.lat, row.gps.lon>>]
           /\ rows' = Append(rows, row)
    /\ pc' = "csv_rows"
    /\ UNCHANGED <<parse_vars, aux_vars>>

\* past the last IMU frame: the file is closed and the row count reported
ExportCsvEnd ==
    /\ pc = "csv_rows"
    /\ csv.i >= Len(session.imu_frames)
    /\ csv' = [csv EXCEPT !.file = "closed", !.reported = ReportedRows(session)]
    /\ pc' = "csv_returned"
    /\ UNCHANGED <<parse_vars, rows, aux_vars>>

NextWalk ==
    \/ Next
    \/ ExportCsvBegin
    \/ ForImuFrame
    \/ AdvanceBracket
    \/ WriteRow
    \/ ExportCsvEnd

SpecWalk == InitWalk /\ [][NextWalk]_vars /\ WF_vars(NextWalk)

(***************************************************************************)
(* parse on files written from a description: the records with their       *)
(* frame numbers, checksum fields and payloads, the fields of the meta     *)
(* header that parse does not read, and the trailing bytes.  The           *)
(* description is kept as the argument of the call.                        *)
(***************************************************************************)
\* the meta header with values[0..3] and values[6] given (layout: 7 x uint32)
MetaHeaderWith(reserved) ==
    pack_I(reserved[1]) \o pack_I(reserved[2]) \o pack_I(reserved[3])
      \o pack_I(reserved[4]) \o pack_I(TestCarId) \o pack_I(TestSessionTimestamp)
      \o pack_I(reserved[5])

\* the record stream for the described records [rtype, frame, payload, crc]
RECURSIVE RecordsOf(_)
RecordsOf(recs) ==
    IF recs = <<>> THEN <<>>
    ELSE LET r == Head(recs)
         IN  _record_header(r.crc, r.rtype, Len(r.payload), r.frame) \o r.payload
               \o RecordsOf(Tail(recs))

\* the file for the description [records, reserved, tail]
FileOf(desc) ==
    RKD_MAGIC \o MetaHeaderWith(desc.reserved) \o RecordsOf(desc.records) \o desc.tail

\* the most records of a generated stream of IMU samples
MaxImuRecords == 3

\* The described files.  Frames: one record, or two of one type, of GPS,
\* accelerometer or gyroscope, with frame numbers around the 16-bit halves
\* and up to 2^31 - 1.  Checksums: three record streams, each with three
\* fillings of the headers' checksum fields, of the meta header's fields that
\* are not read and of the two trailing bytes.  Samples: every stream of up to
\* MaxImuRecords records out of two whole and one short accelerometer record
\* of frame 1, the same of the gyroscope, and an accelerometer record of frame 2.
DescribedFiles ==
    LET Plain(recs) == [records |-> recs, reserved |-> <<1343488, 0, 1, 0, 0>>,
                        tail |-> <<0, 0>>]
        PayloadFor(t) == IF t = RECORD_GPS THEN GpsPayloadA
                         ELSE IF t = RECORD_ACCEL THEN _imu_payload(10, -20, 1000)
                         ELSE _imu_payload(28, -56, 84)
        Rec(t, f) == [rtype |-> t, frame |-> f, payload |-> PayloadFor(t), crc |-> 0]
        FrameNumbers == {0, 1, 65535, 65536, 65537, 131071, 16777216, 2147483647}
        FrameFiles ==
            {Plain(<<Rec(t, f)>>) :
                t \in {RECORD_GPS, RECORD_ACCEL, RECORD_GYRO}, f \in FrameNumbers}
              \cup {Plain(<<Rec(t, f), Rec(t, g)>>) :
                      t \in {RECORD_GPS, RECORD_ACCEL, RECORD_GYRO},
                      f \in FrameNumbers, g \in FrameNumbers}
        Sums(recs, c) == [i \in 1..Len(recs) |-> [recs[i] EXCEPT !.crc = (c * i) % 65536]]
        ChecksumStreams ==
            { <<>>,
              <<Rec(RECORD_GPS, 1), Rec(RECORD_ACCEL, 3)>>,
              <<[rtype |-> RECORD_HEADER, frame |-> 0, payload |-> <<65, 0, 66, 0>>,
                 crc |-> 0],
                Rec(RECORD_GPS, 2), Rec(RECORD_ACCEL, 2), Rec(RECORD_GYRO, 2),
                [rtype |-> RECORD_TERMINATOR, frame |-> 0,
                 payload |-> pack_I(1617536400) \o Zeros(8), crc |-> 0],
                Rec(RECORD_GPS, 3)>> }
        ChecksumFiles ==
            {[records |-> Sums(recs, c), reserved |-> r, tail |-> t] :
                recs \in ChecksumStreams, c \in {0, 48879, 65535},
                r \in {<<1343488, 0, 1, 0, 0>>, <<0, 0, 0, 0, 0>>,
                       <<7, 8, 9, 10, 2147483647>>},
                t \in {<<0, 0>>, <<255, 1>>, <<18, 52>>}}
        Short(p) == SubSeq(p, 1, IMU_PAYLOAD_SIZE - 1)
        ImuRecords ==
            { Rec(RECORD_ACCEL, 1),
              [Rec(RECORD_ACCEL, 1) EXCEPT !.payload = _imu_payload(-30, 40, 990)],
              [Rec(RECORD_ACCEL, 1) EXCEPT !.payload = Short(_imu_payload(77, 78, 79))],
              Rec(RECORD_GYRO, 1),
              [Rec(RECORD_GYRO, 1) EXCEPT !.payload = _imu_payload(-140, 0, 7)],
              [Rec(RECORD_GYRO, 1) EXCEPT !.payload = Short(_imu_payload(55, 56, 57))],
              Rec(RECORD_ACCEL, 2) }
        ImuFiles ==
            {Plain(recs) : recs \in UNION {[1..n -> ImuRecords] : n \in 0..MaxImuRecords}}
    IN  FrameFiles \cup ChecksumFiles \cup ImuFiles

\* the file is written from its description and parse is called on it
InitFiles ==
    /\ \E desc \in DescribedFiles :
          /\ result = Call("parse", <<desc>>)
          /\ data = FileOf(desc)
    /\ pc = "validate"
    /\ err = "none"
    /\ session = NewSession(Len(data))
    /\ has_staging = FALSE
    /\ accel_by_frame = EmptyMap
    /\ gyro_by_frame = EmptyMap
    /\ offset = 0
    /\ scanned = <<>>
    /\ stop = "none"
    /\ csv = CsvIdle
    /\ rows = <<>>
    /\ gpx = GpxIdle
    /\ runs = <<>>
    /\ sample = SampleIdle
    /\ calls = <<>>
    /\ parsers = <<>>

SpecFiles == InitFiles /\ [][Next]_vars

(***************************************************************************)
(* Notions the properties are stated with                                  *)
(***************************************************************************)
\* the signature and the meta header are present
HasSignatureAndMeta(d) ==
    /\ Len(d) >= Len(RKD_MAGIC) + META_HEADER_SIZE
    /\ \A i \in 1..Len(RKD_MAGIC) : d[i] = RKD_MAGIC[i]

\* the record type, frame and payload length of the record scanned at offset o
TypeAt(o) == RecordHeader(data, o).rtype

SizeAt(o) == RecordHeader(data, o).payload_size

\* the scanner is on a header whose payload lies before the checksum boundary
AtCompleteRecord ==
    /\ pc = "scan"
    /\ offset + RECORD_HEADER_SIZE <= Len(data) - TRAILING_CRC_SIZE
    /\ offset + RECORD_HEADER_SIZE + SizeAt(offset) <= Len(data) - TRAILING_CRC_SIZE

\* the scanner is on a header whose payload would end past the checksum boundary
AtTruncatedRecord ==
    /\ pc = "scan"
    /\ offset + RECORD_HEADER_SIZE <= Len(data) - TRAILING_CRC_SIZE
    /\ offset + RECORD_HEADER_SIZE + SizeAt(offset) > Len(data) - TRAILING_CRC_SIZE

\* how many records of type t the scan has counted, from the history
ScannedOfType(t) == Cardinality({i \in 1..Len(scanned) : TypeAt(scanned[i]) = t})

CountOf(t) == MapGet(session.record_counts, t, 0)

SortedByFrame(q) == \A i \in 1..Len(q), j \in 1..Len(q) : i < j => q[i].frame <= q[j].frame

FramesOf(q) == {q[i].frame : i \in 1..Len(q)}

(***************************************************************************)
(* C1: for every buffer that starts with the signature and is at least 36  *)
(* bytes long, parse returns a Session and never raises, whatever the      *)
(* record stream holds (GPS payloads longer than 36 bytes and              *)
(* accelerometer/gyroscope payloads longer than 12 bytes included).        *)
(* The code raises struct.error on such payloads: struct.unpack needs the  *)
(* exact size.                                                             *)
(***************************************************************************)
C1_ParseNeverRaises == HasSignatureAndMeta(data) => pc # "raised"

(***************************************************************************)
(* C2: parse fails fatally in the precedence too small (< 8 bytes), then   *)
(* invalid signature (even when the buffer is also shorter than 36), then  *)
(* too small for header (< 36); in every fatal case no Session is returned *)
(* and nothing was scanned, read from the meta header or merged.           *)
(***************************************************************************)
FatalErrors ==
    {"File too small to be an RKD file", "Invalid RKD magic",
     "File too small for meta header"}

SignatureMatches(d) == \A i \in 1..8 : d[i] = RKD_MAGIC[i]

\* C2: the error follows the precedence, and a fatal error leaves a fresh,
\* unreturned session with nothing scanned, read or merged
C2_FatalPrecedence ==
    /\ (pc # "validate" /\ Len(data) < 8)
          => (pc = "raised" /\ err = "File too small to be an RKD file")
    /\ (pc # "validate" /\ Len(data) >= 8 /\ ~SignatureMatches(data))
          => (pc = "raised" /\ err = "Invalid RKD magic")
    /\ (pc \notin {"validate", "meta"} /\ Len(data) >= 8 /\ SignatureMatches(data)
          /\ Len(data) < 36)
          => (pc = "raised" /\ err = "File too small for meta header")
    /\ (pc \notin {"validate", "meta"} /\ Len(data) >= 36 /\ SignatureMatches(data))
          => err \notin FatalErrors
    /\ err \in FatalErrors
          => /\ pc = "raised"
             /\ session = NewSession(Len(data))
             /\ scanned = <<>> /\ stop = "none" /\ offset = 0
             /\ ~has_staging
    /\ pc = "returned" => err = "none"

C2_Witness ==
    /\ pc = "raised" /\ err = "Invalid RKD magic"
    /\ Len(data) >= 8 /\ Len(data) < 36

(***************************************************************************)
(* C3: on a record header whose declared payload would end past            *)
(* len(data) - 2 the scan stops at once: the record is neither counted nor *)
(* decoded, the cursor stays, nothing is raised, and the fixes, config,    *)
(* staged samples and counts of the earlier records are kept unchanged.    *)
(***************************************************************************)
C3_TruncationStops ==
    [][AtTruncatedRecord =>
          /\ pc' = "merge" /\ err' = "none" /\ stop' = "truncated"
          /\ session' = session
          /\ accel_by_frame' = accel_by_frame /\ gyro_by_frame' = gyro_by_frame
          /\ scanned' = scanned /\ offset' = offset]_vars

C3_Witness ==
    /\ pc = "returned" /\ stop = "truncated"
    /\ Len(scanned) >= 2
    /\ Len(session.gps_fixes) = 1 /\ Len(session.imu_frames) = 1
    /\ SizeAt(offset) = 100
    /\ Len(data) > offset + RECORD_HEADER_SIZE + TRAILING_CRC_SIZE

(***************************************************************************)
(* C4: a complete TERMINATOR record is the last record processed: it is    *)
(* counted and decoded, and nothing after it is counted or decoded, also   *)
(* when complete records follow it and when its payload is shorter than 4  *)
(* bytes; so record_counts[0x8001] is at most 1.                           *)
(***************************************************************************)
C4_TerminatorIsLast ==
    /\ \A i \in 1..Len(scanned) :
          TypeAt(scanned[i]) = RECORD_TERMINATOR
             => /\ i = Len(scanned)
                /\ pc \in {"merge", "returned"}
                /\ stop = "terminator"
                /\ offset = scanned[i] + RECORD_HEADER_SIZE + SizeAt(scanned[i])
                /\ CountOf(RECORD_TERMINATOR) = 1
                /\ session.terminator_timestamp =
                      IF SizeAt(scanned[i]) >= 4
                      THEN unpack_I(data, scanned[i] + RECORD_HEADER_SIZE) ELSE 0
    /\ CountOf(RECORD_TERMINATOR) <= 1
    /\ CountOf(RECORD_TERMINATOR) = ScannedOfType(RECORD_TERMINATOR)

\* a short terminator with a complete record after it
C4_Witness ==
    /\ pc = "returned" /\ stop = "terminator"
    /\ SizeAt(scanned[Len(scanned)]) < 4
    /\ offset + RECORD_HEADER_SIZE <= Len(data) - TRAILING_CRC_SIZE
    /\ offset + RECORD_HEADER_SIZE + SizeAt(offset) <= Len(data) - TRAILING_CRC_SIZE

(***************************************************************************)
(* C5: after the merge of staged accelerometer frames A and gyroscope      *)
(* frames B, the frames of imu_frames are exactly A \cup B, one entry per  *)
(* frame; a frame of A \ B has its three gyro fields zero, a frame of      *)
(* B \ A its three accel fields zero, and every frame carries the staged   *)
(* values of the channels it has.                                          *)
(***************************************************************************)
C5_MergeIsUnion ==
    [][pc = "merge" =>
          LET A == DOMAIN accel_by_frame
              B == DOMAIN gyro_by_frame
              F == session'.imu_frames
          IN  /\ FramesOf(F) = A \cup B
              /\ Len(F) = Cardinality(A \cup B)
              /\ \A i \in 1..Len(F) :
                    LET f == F[i].frame
                        a == <<F[i].accel_x, F[i].accel_y, F[i].accel_z>>
                        g == <<F[i].gyro_x, F[i].gyro_y, F[i].gyro_z>>
                    IN  /\ f \in A => a = accel_by_frame[f]
                        /\ f \in B => g = gyro_by_frame[f]
                        /\ f \notin A => a = <<0, 0, 0>>
                        /\ f \notin B => g = <<0, 0, 0>>]_vars

\* frames 1, 2, 3: both channels, accelerometer only, gyroscope only
C5_Witness ==
    /\ pc = "returned"
    /\ Len(session.imu_frames) = 3
    /\ session.imu_frames[1].accel_z # 0 /\ session.imu_frames[1].gyro_z # 0
    /\ session.imu_frames[2].accel_z # 0 /\ session.imu_frames[2].gyro_z = 0
    /\ session.imu_frames[3].accel_z = 0 /\ session.imu_frames[3].gyro_z # 0

(***************************************************************************)
(* C6: a complete GPS, accelerometer, gyroscope or terminator record whose *)
(* payload is shorter than its fixed size (36, 12, 12, 4) is dropped       *)
(* without raising and without changing gps_fixes, the staging lookups or  *)
(* terminator_timestamp, while record_counts for its type grows by one.    *)
(***************************************************************************)
FixedSize(t) ==
    CASE t = RECORD_GPS -> 36
      [] t = RECORD_ACCEL -> 12
      [] t = RECORD_GYRO -> 12
      [] t = RECORD_TERMINATOR -> 4
      [] OTHER -> 0

AtShortRecord ==
    /\ AtCompleteRecord
    /\ TypeAt(offset) \in {RECORD_GPS, RECORD_ACCEL, RECORD_GYRO, RECORD_TERMINATOR}
    /\ SizeAt(offset) < FixedSize(TypeAt(offset))

\* C6: the step on a short record of a fixed-size type only adds one to its count
C6_ShortPayloadDropped ==
    [][AtShortRecord =>
          /\ pc' # "raised" /\ err' = "none"
          /\ session'.gps_fixes = session.gps_fixes
          /\ session'.terminator_timestamp = session.terminator_timestamp
          /\ session'.config = session.config
          /\ accel_by_frame' = accel_by_frame /\ gyro_by_frame' = gyro_by_frame
          /\ MapGet(session'.record_counts, TypeAt(offset), 0) = CountOf(TypeAt(offset)) + 1
          /\ \A t \in DOMAIN session.record_counts :
                t # TypeAt(offset) => session'.record_counts[t] = session.record_counts[t]]_vars

\* a short accelerometer record was counted and the parse returned without its frame
C6_Witness ==
    /\ pc = "returned"
    /\ CountOf(RECORD_ACCEL) = 2
    /\ Len(session.imu_frames) = 1
    /\ \E i \in 1..Len(scanned) :
          TypeAt(scanned[i]) = RECORD_ACCEL /\ SizeAt(scanned[i]) < 12

(***************************************************************************)
(* C7: after any successful parse gps_fixes is sorted ascending by frame   *)
(* and imu_frames is sorted ascending by frame, for every record stream    *)
(* (GPS records arriving with non-increasing frame numbers included).      *)
(* The code appends fixes in arrival order and never sorts them.           *)
(***************************************************************************)
C7_BothSortedByFrame ==
    pc = "returned" =>
        SortedByFrame(session.gps_fixes) /\ SortedByFrame(session.imu_frames)

(***************************************************************************)
(* C10: config holds key k exactly when a processed HEADER payload, its    *)
(* trailing nulls stripped, still has a null with k before the first one,  *)
(* and config[k] is what follows that null in the last such record; a      *)
(* payload with no null left after stripping changes nothing.              *)
(* As stated (k the bytes of the payload) this fails for bytes outside     *)
(* ASCII, which the permissive decoding replaces with U+FFFD: two          *)
(* different byte keys then share one config key.  The amended statement   *)
(* takes k and the value to be the decoded texts.                          *)
(***************************************************************************)
PayloadAt(o) == [i \in 1..SizeAt(o) |-> data[o + RECORD_HEADER_SIZE + i]]

\* the first null byte and the last byte that is not null, 0 when there is none
FirstNulOf(p) ==
    IF \E i \in 1..Len(p) : p[i] = 0
    THEN CHOOSE i \in 1..Len(p) : p[i] = 0 /\ \A j \in 1..Len(p) : p[j] = 0 => i <= j
    ELSE 0

LastNonNulOf(p) ==
    IF \E i \in 1..Len(p) : p[i] # 0
    THEN CHOOSE i \in 1..Len(p) : p[i] # 0 /\ \A j \in 1..Len(p) : p[j] # 0 => j <= i
    ELSE 0

\* a null is left once the trailing nulls are stripped
HasSeparator(p) == FirstNulOf(p) > 0 /\ FirstNulOf(p) < LastNonNulOf(p)

KeyBytes(p) == [i \in 1..(FirstNulOf(p) - 1) |-> p[i]]

ValueBytes(p) == [i \in 1..(LastNonNulOf(p) - FirstNulOf(p)) |-> p[FirstNulOf(p) + i]]

\* the text of a byte string: a byte above 127 reads as U+FFFD
TextOf(b) == [i \in 1..Len(b) |-> IF b[i] > 127 THEN 65533 ELSE b[i]]

\* the processed HEADER records that make an entry, by position in the scan
EntryRecords ==
    {i \in 1..Len(scanned) :
        TypeAt(scanned[i]) = RECORD_HEADER /\ HasSeparator(PayloadAt(scanned[i]))}

\* the last entry-making record whose key, read through Key, is k
LastWriter(Key(_), k) ==
    CHOOSE i \in EntryRecords :
        /\ Key(PayloadAt(scanned[i])) = k
        /\ \A j \in EntryRecords : Key(PayloadAt(scanned[j])) = k => j <= i

KeyText(p) == TextOf(KeyBytes(p))

ValueText(p) == TextOf(ValueBytes(p))

\* C10 as stated: keys and values are the payload's bytes
C10_ConfigByBytes ==
    /\ DOMAIN session.config = {KeyBytes(PayloadAt(scanned[i])) : i \in EntryRecords}
    /\ \A k \in DOMAIN session.config :
          session.config[k] = ValueBytes(PayloadAt(scanned[LastWriter(KeyBytes, k)]))

\* C10 amended: keys and values are the decoded texts, the last writer of a
\* text key wins
C10_ConfigByText ==
    /\ DOMAIN session.config = {KeyText(PayloadAt(scanned[i])) : i \in EntryRecords}
    /\ \A k \in DOMAIN session.config :
          session.config[k] = ValueText(PayloadAt(scanned[LastWriter(KeyText, k)]))

\* after the scan: two entry-making records with one key, the later value kept,
\* and a record with no null left that made no entry
C10_Witness ==
    /\ pc = "returned"
    /\ \E i, j \in EntryRecords :
          /\ i < j
          /\ KeyText(PayloadAt(scanned[i])) = KeyText(PayloadAt(scanned[j]))
          /\ ValueText(PayloadAt(scanned[i])) # ValueText(PayloadAt(scanned[j]))
          /\ session.config[KeyText(PayloadAt(scanned[j]))] = ValueText(PayloadAt(scanned[j]))

(***************************************************************************)
(* C8: export_csv writes exactly one data row for each IMU frame f with    *)
(* first_gps_frame <= f <= last_gps_frame, in imu_frames order, and none   *)
(* for an IMU frame before the first or after the last GPS fix's frame;    *)
(* the number of data rows is the number of in-range IMU frames.           *)
(***************************************************************************)
FirstGpsFrame == session.gps_fixes[1].frame

LastGpsFrame == session.gps_fixes[Len(session.gps_fixes)].frame

\* the frames, in imu_frames order, of the in-range ones among the first k IMU frames
RECURSIVE InRangeFrames(_)
InRangeFrames(k) ==
    IF k = 0 THEN <<>>
    ELSE LET f == session.imu_frames[k].frame
         IN  IF FirstGpsFrame <= f /\ f <= LastGpsFrame
             THEN Append(InRangeFrames(k - 1), f)
             ELSE InRangeFrames(k - 1)

FieldsEqualFix(r, g) ==
    /\ r.gps.utc_ms = g.utc_ms
    /\ r.gps.lat = Whole(g.latitude) /\ r.gps.lon = Whole(g.longitude)
    /\ r.gps.speed = Whole(g.speed_ms) /\ r.gps.alt = Whole(g.altitude_m)
    /\ r.gps.heading = Whole(g.heading_deg)
    /\ r.gps.vspeed_cms = Whole(g.vertical_speed_cms)
    /\ r.gps.sats = g.satellites

\* C9 as stated: a row on the frame of some fix is that fix, taken directly
C9_AtFixUsesDirectBranch ==
    \A j \in 1..Len(rows) :
        \A k \in 1..Len(session.gps_fixes) :
            rows[j].frame = session.gps_fixes[k].frame
               => /\ rows[j].gps.branch = "direct"
                  /\ \E m \in 1..Len(session.gps_fixes) :
                        /\ session.gps_fixes[m].frame = rows[j].frame
                        /\ FieldsEqualFix(rows[j], session.gps_fixes[m])

\* C9 amended: the direct branch is taken exactly when the bracketing fix is the
\* last of gps_fixes, and gives that fix's fields unmodified; a row on the
\* frame of a bracketing fix that has a later fix is interpolated with t = 0:
\* the fix's fields, with the heading normalized into [0, 360) degrees.
C9_DirectOnlyAtLastFix ==
    \A j \in 1..Len(rows) :
        LET r  == rows[j]
            g0 == session.gps_fixes[r.gps_idx + 1]
        IN  /\ r.gps.branch = "direct" <=> r.gps_idx + 1 = Len(session.gps_fixes)
            /\ r.gps.branch = "direct" => FieldsEqualFix(r, g0)
            /\ (r.gps.branch = "interpolate" /\ r.frame = g0.frame)
                  => /\ r.gps.t.n = 0
                     /\ r.gps.utc_ms = g0.utc_ms /\ r.gps.sats = g0.satellites
                     /\ r.gps.lat.n = g0.latitude * r.gps.lat.d
                     /\ r.gps.lon.n = g0.longitude * r.gps.lon.d
                     /\ r.gps.speed.n = g0.speed_ms * r.gps.speed.d
                     /\ r.gps.alt.n = g0.altitude_m * r.gps.alt.d
                     /\ r.gps.vspeed_cms.n = g0.vertical_speed_cms * r.gps.vspeed_cms.d
                     /\ r.gps.heading.n =
                           (g0.heading_deg % (360 * 100000)) * r.gps.heading.d

\* an interpolated row on its bracketing fix's frame whose heading differs from
\* the fix's (370 degrees became 10), and a direct row on the last fix's frame
C9_Witness ==
    /\ pc = "csv_returned"
    /\ \E j \in 1..Len(rows) :
          /\ rows[j].gps.branch = "interpolate"
          /\ rows[j].frame = session.gps_fixes[rows[j].gps_idx + 1].frame
          /\ rows[j].gps.heading.n #
                session.gps_fixes[rows[j].gps_idx + 1].heading_deg * rows[j].gps.heading.d
    /\ \E j \in 1..Len(rows) :
          /\ rows[j].gps.branch = "direct"
          /\ rows[j].frame = LastGpsFrame

(***************************************************************************)
(* C11: duration_seconds is 0 with fewer than two GPS fixes and otherwise  *)
(* last.gps_timestamp - first.gps_timestamp (10 for two fixes 10 seconds   *)
(* apart); total_distance_km is 0 with fewer than two fixes and otherwise  *)
(* the sum of the distances between consecutive fixes; max_speed_kmh is 0  *)
(* with no fixes and otherwise 3.6 times the maximum speed_ms.             *)
(***************************************************************************)
\* the session a finished call read its property from
ReadOf(fn) == result.fn = fn /\ result.done

DaysFromCivil(y, m, d) ==
    LET yy  == IF m <= 2 THEN y - 1 ELSE y
        era == yy \div 400
        yoe == yy - era * 400
        mp  == IF m > 2 THEN m - 3 ELSE m + 9
        doy == ((153 * mp + 2) \div 5) + d - 1
        doe == yoe * 365 + (yoe \div 4) - (yoe \div 100) + doy
    IN  era * 146097 + doe - 719468

\* u stands for fewer milliseconds than v
UtcBefore(u, v) == u.s < v.s \/ (u.s = v.s /\ u.ms < v.ms)

C12_GpsToUtcMs ==
    ReadOf("_gps_to_utc_ms") =>
        LET g == result.args[1]
        IN  /\ result.value.ms = 0
            /\ result.value.s = 315964800 + (g - 18)
            /\ g = 18 => result.value.s = DaysFromCivil(1980, 1, 6) * 86400
            /\ \A h \in GpsSeconds :
                  /\ h < g => UtcBefore(_gps_to_utc_ms(h), result.value)
                  /\ h > g => UtcBefore(result.value, _gps_to_utc_ms(h))

\* the call on the leap offset itself returned the GPS epoch
C12_Witness ==
    /\ ReadOf("_gps_to_utc_ms")
    /\ result.args[1] = 18
    /\ result.value = [s |-> 3657 * 86400, ms |-> 0]

(***************************************************************************)
(* C13: _lerp_angle(a, b, t) is a + d * t normalized into [0, 360), d the  *)
(* shortest signed difference from a to b; lerp_angle(350, 10, 0.5) is 0.  *)
(* As stated d lies in (-180, 180], +180 when b - a is 180 modulo 360; the *)
(* code's d lies in [-180, 180), -180 in that case, so that half way from  *)
(* 0 to 180 it returns 270 and not 90.                                     *)
(***************************************************************************)
\* the difference from a to b in (-180, 180] and in [-180, 180), in heading units
DiffUpperClosed(a, b) ==
    LET mod == (b - a) % 36000000
    IN  IF mod > 18000000 THEN mod - 36000000 ELSE mod

DiffLowerClosed(a, b) ==
    LET mod == (b - a) % 36000000
    IN  IF mod >= 18000000 THEN mod - 36000000 ELSE mod

\* the fraction v is a + d * t normalized into [0, 360)
IsNormalizedSum(v, a, d, t) ==
    /\ v.d = t.d
    /\ 0 <= v.n /\ v.n < 36000000 * v.d
    /\ (v.n - (a * t.d + d * t.n)) % (36000000 * v.d) = 0

\* C13 as stated: the difference is taken in (-180, 180]
C13_LerpAngleUpperClosed ==
    ReadOf("_lerp_angle") =>
        LET a == result.args[1]
            b == result.args[2]
            t == result.args[3]
        IN  /\ IsNormalizedSum(result.value, a, DiffUpperClosed(a, b), t)
            /\ (a = 35000000 /\ b = 1000000 /\ t = [n |-> 1, d |-> 2])
                  => result.value.n = 0

\* C13 amended: the difference is taken in [-180, 180)
C13_LerpAngleLowerClosed ==
    ReadOf("_lerp_angle") =>
        LET a == result.args[1]
            b == result.args[2]
            t == result.args[3]
        IN  /\ IsNormalizedSum(result.value, a, DiffLowerClosed(a, b), t)
            /\ (a = 35000000 /\ b = 1000000 /\ t = [n |-> 1, d |-> 2])
                  => result.value.n = 0

\* half way from 10 to 190 degrees the call returned 280 degrees
C13_Witness ==
    /\ ReadOf("_lerp_angle")
    /\ result.args = <<1000000, 19000000, [n |-> 1, d |-> 2]>>
    /\ result.value = [n |-> 56000000, d |-> 2]

(***************************************************************************)
(* C14: a complete record of type PERIODIC (6), TIMESTAMP (8) or of a type *)
(* outside the seven known ones adds exactly one to record_counts under    *)
(* its raw type and changes nothing else of the decode state: config,      *)
(* gps_fixes, both staging lookups, terminator_timestamp, car_id and       *)
(* session_timestamp; scanning goes on with the next record.               *)
(***************************************************************************)
KnownTypes ==
    {RECORD_HEADER, RECORD_GPS, RECORD_PERIODIC, RECORD_ACCEL, RECORD_TIMESTAMP,
     RECORD_GYRO, RECORD_TERMINATOR}

AtIgnoredRecord ==
    /\ AtCompleteRecord
    /\ TypeAt(offset) \in {RECORD_PERIODIC, RECORD_TIMESTAMP} \/ TypeAt(offset) \notin KnownTypes

C14_IgnoredTypesOnlyCounted ==
    [][AtIgnoredRecord =>
          /\ DOMAIN session'.record_counts = DOMAIN session.record_counts \cup {TypeAt(offset)}
          /\ session'.record_counts[TypeAt(offset)] = CountOf(TypeAt(offset)) + 1
          /\ \A t \in DOMAIN session.record_counts :
                t # TypeAt(offset) => session'.record_counts[t] = session.record_counts[t]
          /\ session' = [session EXCEPT !.record_counts = session'.record_counts]
          /\ accel_by_frame' = accel_by_frame /\ gyro_by_frame' = gyro_by_frame
          /\ has_staging' = has_staging
          /\ err' = "none" /\ pc' = "scan" /\ stop' = stop
          /\ offset' = offset + RECORD_HEADER_SIZE + SizeAt(offset)]_vars

\* a PERIODIC, a TIMESTAMP and a type-99 record counted once each, with a
\* gyroscope record before them and an accelerometer record after them decoded
C14_Witness ==
    /\ pc = "returned"
    /\ CountOf(RECORD_PERIODIC) = 1 /\ CountOf(RECORD_TIMESTAMP) = 1 /\ CountOf(99) = 1
    /\ TypeAt(scanned[1]) = RECORD_GYRO
    /\ TypeAt(scanned[Len(scanned)]) = RECORD_ACCEL
    /\ Len(session.imu_frames) = 1 /\ Len(session.gps_fixes) = 1

(***************************************************************************)
(* C15: export_csv and export_gpx leave every field of the Session         *)
(* unchanged, and walking the same Session again gives an identical row    *)
(* sequence: the bracket index, the cumulative distance and the previous   *)
(* position are local to one export run and start afresh on each.          *)
(***************************************************************************)
\* every finished export call of one function wrote the same
SameEveryRun ==
    \A i \in 1..Len(runs), j \in 1..Len(runs) :
        runs[i].fn = runs[j].fn => runs[i] = runs[j]

\* a run of export_csv starts from the initial locals
StartsAfresh ==
    (pc = "csv_rows" /\ csv.i = 0)
        => csv.gps_idx = 0 /\ csv.prev = <<>> /\ rows = <<>>

\* C15: every step of an export keeps the session, a run starts from the
\* initial locals and a finished run has written what the earlier ones wrote
C15_ExportsRestartAndKeepSession ==
    [][session' = session /\ StartsAfresh' /\ SameEveryRun']_vars

\* export_csv has written the same three rows or more twice, the first run
\* having left the bracket index on a later fix
C15_Witness ==
    /\ Len(runs) = 2
    /\ runs[1].fn = "export_csv" /\ runs[2].fn = "export_csv"
    /\ Len(runs[2].written) >= 3
    /\ csv.gps_idx > 0

(***************************************************************************)
(* C17: export_csv on a Session with no IMU frames or no GPS fixes, and    *)
(* export_gpx on a Session with no GPS fixes, warn and return without      *)
(* creating or writing the output file and without raising.                *)
(***************************************************************************)
C17_NoDataWarnsAndWritesNothing ==
    /\ (session.imu_frames = <<>> \/ session.gps_fixes = <<>>)
          => /\ pc # "csv_rows"
             /\ csv.file = "none" /\ rows = <<>>
             /\ pc = "csv_returned" => csv.warned
             /\ \A i \in 1..Len(runs) :
                   runs[i].fn = "export_csv"
                      => runs[i].warned /\ runs[i].file = "none" /\ runs[i].written = <<>>
    /\ session.gps_fixes = <<>>
          => /\ gpx.file = "none" /\ gpx.trkpts = <<>>
             /\ pc = "gpx_returned" => gpx.warned
             /\ \A i \in 1..Len(runs) :
                   runs[i].fn = "export_gpx"
                      => runs[i].warned /\ runs[i].file = "none" /\ runs[i].written = <<>>
    /\ err = "none" /\ pc # "raised"

\* on a session with IMU frames and no fix both exporters warned and returned
C17_Witness ==
    /\ session.imu_frames # <<>> /\ session.gps_fixes = <<>>
    /\ Len(runs) = 2
    /\ runs[1].fn = "export_csv" /\ runs[1].warned
    /\ runs[2].fn = "export_gpx" /\ runs[2].warned
    /\ csv.file = "none" /\ gpx.file = "none"

(***************************************************************************)
(* C16: two calls of parse on different files whose steps interleave, each *)
(* building its own Session, do not interfere: each returns the Session    *)
(* that parsing its file alone returns, through one RKDParser object as    *)
(* well as through two.  The code keeps the staging lookups on the parser  *)
(* object, so two calls through one object share them.                     *)
(***************************************************************************)
C16_CallsDoNotInterfere ==
    \A c \in 1..Len(calls) :
        /\ calls[c].pc = "returned"
              => /\ parse(calls[c].data).err = "none"
                 /\ calls[c].session = parse(calls[c].data).session
        /\ calls[c].pc = "raised" => calls[c].err = parse(calls[c].data).err

(***************************************************************************)
(* C18: for every valid input file and every N >= 0, parsing the file      *)
(* written by create_sample_rkd(input, output, N) succeeds and yields at   *)
(* most N GPS fixes, which are the first fixes, in order, of the Session   *)
(* obtained by parsing the input itself; the sample's record stream is a   *)
(* prefix of the input's scanned record stream.  A valid file is one with  *)
(* the signature and the meta header.  On an input with an over-long GPS,  *)
(* accelerometer or gyroscope payload (C1) the sample holds that record    *)
(* and parse raises on it as it does on the input.                         *)
(***************************************************************************)
\* the offsets of the records parse counts in d, from the decode state c on
RECURSIVE ScannedOffsets(_, _)
ScannedOffsets(d, c) ==
    LET r == _parse_records_step(d, c)
        next == [session |-> r.session, accel |-> r.accel, gyro |-> r.gyro,
                 offset |-> r.offset]
    IN  IF r.outcome = "continue" THEN <<c.offset>> \o ScannedOffsets(d, next)
        ELSE IF r.outcome \in {"terminator", "raised"} THEN <<c.offset>>
        ELSE <<>>

\* the record stream parse scans in the input file
InputScan(d) ==
    ScannedOffsets(d, [session |-> NewSession(Len(d)), accel |-> EmptyMap,
                       gyro |-> EmptyMap, offset |-> Len(RKD_MAGIC) + META_HEADER_SIZE])

IsPrefix(p, q) == Len(p) <= Len(q) /\ \A i \in 1..Len(p) : p[i] = q[i]

\* parsing the sample succeeds, its fixes are at most N and the first of the
\* input's, its record stream is the beginning of the input's scanned one
SampleParsesToPrefix ==
    /\ pc # "raised" /\ err = "none"
    /\ pc = "returned" =>
          /\ Len(session.gps_fixes) <= sample.max_gps_fixes
          /\ IsPrefix(session.gps_fixes, parse(sample.data).session.gps_fixes)
          /\ IsPrefix(scanned, InputScan(sample.data))
          /\ offset = Len(data) - TRAILING_CRC_SIZE
          /\ Slice(data, 0, offset) = Slice(sample.data, 0, offset)

\* C18: the sample of every file with signature and meta header parses to a
\* prefix of the input's fixes and records
C18_SampleIsPrefix == HasSignatureAndMeta(sample.data) => SampleParsesToPrefix

\* the same for the inputs parse itself returns a Session for, which holds
SampleOfParsedInputIsPrefix ==
    (HasSignatureAndMeta(sample.data) /\ parse(sample.data).err = "none")
        => SampleParsesToPrefix

\* one fix asked of an input with two: the sample has the HEADER record and
\* the first GPS record and parses to that one fix
SampleOfParsedInput_Witness ==
    /\ pc = "returned"
    /\ sample.max_gps_fixes = 1
    /\ Len(parse(sample.data).session.gps_fixes) >= 2
    /\ Len(session.gps_fixes) = 1
    /\ Len(scanned) = 2
    /\ Len(InputScan(sample.data)) > 4

(***************************************************************************)
(* C19: during export_csv the bracket index never decreases, stays within  *)
(* 0..len(gps_fixes)-1, and at every emitted row gps_fixes[idx] is the     *)
(* last fix of gps_fixes whose frame is <= the row's IMU frame: every fix  *)
(* after idx has a greater frame.  The advance loop stops at the first     *)
(* later fix with a greater frame; when gps_fixes is not ascending by      *)
(* frame (C7) a fix further on can have a frame <= the IMU frame.          *)
(***************************************************************************)
\* the row's bracket index is on the last fix at or before the row's frame
RowIsBracketed(r) ==
    /\ r.gps_idx \in 0..(Len(session.gps_fixes) - 1)
    /\ session.gps_fixes[r.gps_idx + 1].frame <= r.frame
    /\ \A k \in (r.gps_idx + 2)..Len(session.gps_fixes) :
          session.gps_fixes[k].frame > r.frame

BracketIndexInRange ==
    pc = "csv_rows" => csv.gps_idx \in 0..(Len(session.gps_fixes) - 1)

\* C19: the index only advances, stays in range, and brackets every row
C19_BracketIndex ==
    [][/\ pc = "csv_rows" => csv'.gps_idx >= csv.gps_idx
       /\ BracketIndexInRange'
       /\ \A j \in 1..Len(rows') : RowIsBracketed(rows'[j])]_vars

\* the same on the sessions whose gps_fixes ascend by frame, where it holds
BracketIndexOnAscendingFixes ==
    [][SortedByFrame(session.gps_fixes) =>
          /\ pc = "csv_rows" => csv'.gps_idx >= csv.gps_idx
          /\ BracketIndexInRange'
          /\ \A j \in 1..Len(rows') : RowIsBracketed(rows'[j])]_vars

(***************************************************************************)
(* C20: the IMU merge happens exactly once per parse and only after the    *)
(* scan has stopped: imu_frames stays empty during the whole scan, and an  *)
(* accelerometer record and a gyroscope record with the same frame         *)
(* collapse into one IMUFrame, however many other records lie between      *)
(* them in the stream and whichever of the two comes first.                *)
(***************************************************************************)
FrameAt(o) == FrameOf(RecordHeader(data, o))

\* the i-th scanned record is a decoded record of the IMU channel t
IsSample(i, t) == TypeAt(scanned[i]) = t /\ SizeAt(scanned[i]) = IMU_PAYLOAD_SIZE

\* the three signed 32-bit values of the payload of the record at o
RawTripleAt(o) ==
    <<unpack_i(data, o + RECORD_HEADER_SIZE), unpack_i(data, o + RECORD_HEADER_SIZE + 4),
      unpack_i(data, o + RECORD_HEADER_SIZE + 8)>>

\* the last scanned sample of channel t with frame f
LastSample(t, f) ==
    CHOOSE i \in 1..Len(scanned) :
        /\ IsSample(i, t) /\ FrameAt(scanned[i]) = f
        /\ \A j \in 1..Len(scanned) :
              (IsSample(j, t) /\ FrameAt(scanned[j]) = f) => j <= i

\* every frame that has a sample of both channels has exactly one IMUFrame,
\* which carries the two samples
PairsCollapsed ==
    \A i \in 1..Len(scanned), j \in 1..Len(scanned) :
        (IsSample(i, RECORD_ACCEL) /\ IsSample(j, RECORD_GYRO)
            /\ FrameAt(scanned[i]) = FrameAt(scanned[j]))
        => LET f == FrameAt(scanned[i])
               K == {k \in 1..Len(session.imu_frames) : session.imu_frames[k].frame = f}
               a == RawTripleAt(scanned[LastSample(RECORD_ACCEL, f)])
               g == RawTripleAt(scanned[LastSample(RECORD_GYRO, f)])
           IN  /\ Cardinality(K) = 1
               /\ \A k \in K :
                     /\ session.imu_frames[k].accel_x = a[1] * 981
                     /\ session.imu_frames[k].accel_y = a[2] * 981
                     /\ session.imu_frames[k].accel_z = a[3] * 981
                     /\ session.imu_frames[k].gyro_x = g[1]
                     /\ session.imu_frames[k].gyro_y = g[2]
                     /\ session.imu_frames[k].gyro_z = g[3]

\* C20: imu_frames changes in the one merge step only, which follows the end
\* of the scan and ends the parse; until then it is empty; after it every
\* pair of samples of one frame is one IMUFrame
C20_MergeOnceAfterScan ==
    [][/\ session'.imu_frames # session.imu_frames
             => pc = "merge" /\ stop \in {"eof", "truncated", "terminator"}
                  /\ pc' = "returned" /\ session.imu_frames = <<>>
       /\ pc' # "returned" => session'.imu_frames = <<>>
       /\ pc' = "returned" => pc = "merge" /\ PairsCollapsed']_vars

\* the gyroscope sample of frame 1 came first, the accelerometer sample of
\* frame 1 six records later, with records of five other types between them
C20_Witness ==
    /\ pc = "returned"
    /\ Len(scanned) = 7
    /\ IsSample(1, RECORD_GYRO) /\ IsSample(7, RECORD_ACCEL)
    /\ FrameAt(scanned[1]) = FrameAt(scanned[7])
    /\ Cardinality({TypeAt(scanned[i]) : i \in 2..6}) = 5
    /\ Len(session.imu_frames) = 1
    /\ session.imu_frames[1].accel_z # 0 /\ session.imu_frames[1].gyro_z # 0

(***************************************************************************)
(* C21: the record scan and the bracket-advance loop terminate.  A pass of *)
(* the scan loop that does not end the loop moves the cursor on by at      *)
(* least the 10 bytes of a record header, so the records scanned are       *)
(* bounded by the buffer length; a pass of the while loop of export_csv    *)
(* raises gps_idx by one and keeps it below the number of fixes; and every *)
(* call of parse ends (it raises or returns) and every call of export_csv  *)
(* that follows returns.                                                   *)
(***************************************************************************)
ScanPassAdvances ==
    (pc = "scan" /\ pc' = "scan") => offset' >= offset + RECORD_HEADER_SIZE

BracketPassAdvances ==
    (pc = "csv_bracket" /\ pc' = "csv_bracket")
        => /\ csv'.gps_idx = csv.gps_idx + 1
           /\ csv'.gps_idx <= Len(session.gps_fixes) - 1
           /\ csv'.i = csv.i

C21_LoopsTerminate ==
    /\ [][ScanPassAdvances /\ BracketPassAdvances]_vars
    /\ [](Len(scanned) * RECORD_HEADER_SIZE <= Len(data))
    /\ <>(pc \in {"raised", "csv_returned"})

\* both loops have run more than one pass and the calls have ended
C21_Witness ==
    /\ pc = "csv_returned"
    /\ Len(scanned) >= 3
    /\ csv.gps_idx >= 1
    /\ Len(rows) >= 2

(***************************************************************************)
(* C22: two consecutive GPS fixes share a frame and an IMU frame falls on  *)
(* it.  As stated, the row is handled in the interpolation branch between  *)
(* the two fixes with a zero denominator, t clamped to 0, and carries the  *)
(* earlier fix's fields.  The code's advance loop steps over the earlier   *)
(* fix (the next fix's frame is <= the IMU frame): the row is never        *)
(* bracketed at the earlier fix and the denominator is never zero.         *)
(***************************************************************************)
\* the 1-based positions k of the fixes that share frame f with the next fix
SharedFramePairs(f) ==
    {k \in 1..(Len(session.gps_fixes) - 1) :
        session.gps_fixes[k].frame = f /\ session.gps_fixes[k + 1].frame = f}

\* the row's GPS-derived fields are those of fix g as an interpolation at
\* t = 0 gives them: the heading normalized into [0, 360) degrees
FieldsEqualFixNormalized(r, g) ==
    /\ r.gps.utc_ms = g.utc_ms /\ r.gps.sats = g.satellites
    /\ r.gps.lat.n = g.latitude * r.gps.lat.d
    /\ r.gps.lon.n = g.longitude * r.gps.lon.d
    /\ r.gps.speed.n = g.speed_ms * r.gps.speed.d
    /\ r.gps.alt.n = g.altitude_m * r.gps.alt.d
    /\ r.gps.vspeed_cms.n = g.vertical_speed_cms * r.gps.vspeed_cms.d
    /\ r.gps.heading.n =
          (g.heading_deg % (360 * HEADING_UNITS_PER_DEGREE)) * r.gps.heading.d

\* the frame span the row's interpolation divides by
FrameSpanOf(r) ==
    session.gps_fixes[r.gps_idx + 2].frame - session.gps_fixes[r.gps_idx + 1].frame

PositionOf(r) == <<r.gps.lat, r.gps.lon>>

\* the _haversine calls whose values are summed into the distance of row j
DistanceCallsOf(j) ==
    [k \in 1..(j - 1) |->
        _haversine_call(rows[k + 1].dist_from[1], rows[k + 1].dist_from[2],
                        rows[k + 1].gps.lat, rows[k + 1].gps.lon)]

C23_DistanceFromPreviousRow ==
    /\ \A j \in 1..Len(rows) :
          /\ j = 1 => rows[j].dist_from = <<>>
          /\ j > 1 => rows[j].dist_from = PositionOf(rows[j - 1])
          /\ j > 1 => /\ Len(DistanceCallsOf(j)) = Len(DistanceCallsOf(j - 1)) + 1
                      /\ DistanceCallsOf(j)[j - 1] =
                            _haversine_call(rows[j - 1].gps.lat, rows[j - 1].gps.lon,
                                            rows[j].gps.lat, rows[j].gps.lon)
    /\ pc = "csv_rows"
          => csv.prev = IF rows = <<>> THEN <<>> ELSE PositionOf(rows[Len(rows)])

\* three rows after a skipped IMU frame and before another, the third one
\* measured from an interpolated position that is no fix's position
C23_Witness ==
    /\ pc = "csv_returned"
    /\ Len(rows) >= 3
    /\ session.imu_frames[1].frame < rows[1].frame
    /\ session.imu_frames[Len(session.imu_frames)].frame > rows[Len(rows)].frame
    /\ \A k \in 1..Len(session.gps_fixes) :
          rows[3].dist_from # <<Whole(session.gps_fixes[k].latitude),
                                Whole(session.gps_fixes[k].longitude)>>

(***************************************************************************)
(* C24: a frame number F written in a record header as its low 16-bit half *)
(* and then its high 16-bit half is what the scanner hands to the decoder: *)
(* the GPSFix or IMUFrame made from the record has frame = F, and records  *)
(* with different F give different frames.  (F up to 2^31 - 1 here.)       *)
(***************************************************************************)
\* the records the file was written from
Written == result.args[1].records

\* the frames written in the scanned records of the given types whose payload
\* has the size the decoder takes
FramesWritten(types, size) ==
    {Written[i].frame : i \in {k \in 1..Len(scanned) :
                                  /\ Written[k].rtype \in types
                                  /\ Len(Written[k].payload) = size}}

C24_FrameReassembled ==
    result.fn = "parse" =>
        /\ \A i \in 1..Len(scanned) :
              FrameOf(RecordHeader(data, scanned[i])) = Written[i].frame
        /\ pc = "returned" =>
              /\ FramesOf(session.gps_fixes) = FramesWritten({RECORD_GPS}, GPS_PAYLOAD_SIZE)
              /\ FramesOf(session.imu_frames) =
                    FramesWritten({RECORD_ACCEL, RECORD_GYRO}, IMU_PAYLOAD_SIZE)

\* two GPS records whose frames, 65537 and 1, have the same low half gave two
\* fixes with the frames written
C24_Witness ==
    /\ result.fn = "parse"
    /\ pc = "returned"
    /\ Len(session.gps_fixes) = 2
    /\ session.gps_fixes[1].frame = 65537
    /\ session.gps_fixes[2].frame = 1

(***************************************************************************)
(* C25: the parse result does not depend on checksum content.  A file and  *)
(* the file of the same length that differs from it only in the checksum   *)
(* fields of the record headers, in the two trailing bytes and in the five *)
(* meta-header fields that are not read (values 0 to 3 and 6) end parse    *)
(* the same way with Sessions equal in every field.                        *)
(***************************************************************************)
\* the description with every checksum field zero, the meta header's unread
\* fields as the recorder writes them and two zero trailing bytes
Canonical(desc) ==
    [records |-> [i \in 1..Len(desc.records) |-> [desc.records[i] EXCEPT !.crc = 0]],
     reserved |-> <<1343488, 0, 1, 0, 0>>,
     tail |-> <<0, 0>>]

C25_ChecksumsIgnored ==
    (result.fn = "parse" /\ pc \in {"returned", "raised"}) =>
        LET other == FileOf(Canonical(result.args[1]))
        IN  /\ Len(other) = Len(data)
            /\ parse(other) = [err |-> err, session |-> session]

\* a parse that returned on a file with a fix and IMU frames whose record
\* checksums, unread meta-header fields and trailing bytes are all non-zero
C25_Witness ==
    /\ result.fn = "parse"
    /\ pc = "returned"
    /\ session.gps_fixes # <<>> /\ session.imu_frames # <<>>
    /\ \A i \in 1..Len(scanned) : RecordHeader(data, scanned[i]).crc # 0
    /\ \A k \in {0, 1, 2, 3, 6} : unpack_I(data, Len(RKD_MAGIC) + 4 * k) > 1
    /\ data[Len(data) - 1] # 0 /\ data[Len(data)] # 0
    /\ FileOf(Canonical(result.args[1])) # data

(***************************************************************************)
(* C26: one RKDParser object used for one parse after the other leaks      *)
(* nothing between the files.  Whatever the first call did (returned, was  *)
(* rejected, or raised in the middle of the scan, leaving its lookups on   *)
(* the object), the second call ends as parse does on its file with a      *)
(* fresh parser, with the same Session; and when a call returns the        *)
(* staging lookups are gone from its parser object.                        *)
(***************************************************************************)
CallEnded(c) == calls[c].pc \in {"returned", "raised"}

EndsAsWithFreshParser ==
    \A c \in 1..Len(calls) :
        CallEnded(c) =>
            parse(calls[c].data) = [err |-> calls[c].err, session |-> calls[c].session]

\* call k has replaced the lookups of its parser object (_parse_records began)
StartedScan(k) ==
    /\ calls[k].pc \notin {"validate", "meta", "records"}
    /\ _validate_magic(calls[k].data) = "none"
    /\ _parse_meta_header(calls[k].data, NewSession(Len(calls[k].data))).err = "none"

C26_ReuseLeaksNothing ==
    /\ EndsAsWithFreshParser
    /\ \A c \in 1..Len(calls) :
          (/\ calls[c].pc = "returned"
           /\ \A k \in (c + 1)..Len(calls) :
                 calls[k].parser = calls[c].parser => ~StartedScan(k))
             => ~parsers[calls[c].parser].has_staging

\* the first call raised in the middle of its scan and left an accelerometer
\* sample of frame 1 on the object; the second call, through the same object,
\* returned IMU frames without it
C26_Witness ==
    /\ Len(calls) = 2
    /\ calls[2].parser = 1
    /\ calls[1].err = "struct.error"
    /\ calls[2].pc = "returned"
    /\ Len(calls[2].session.imu_frames) = 2
    /\ 1 \notin FramesOf(calls[2].session.imu_frames)
    /\ ~parsers[1].has_staging

(***************************************************************************)
(* C27: the file create_sample_rkd writes always ends with a TERMINATOR    *)
(* record, a synthetic one when the records copied hold none, followed by  *)
(* the two trailing bytes; so parse on a sample counts exactly one         *)
(* TERMINATOR record.  Stated for the inputs parse itself accepts.  The    *)
(* code appends the two trailing bytes and no record.                      *)
(***************************************************************************)
LastCopiedIsTerminator ==
    /\ sample.copied # <<>>
    /\ RecordHeader(sample.data, sample.copied[Len(sample.copied)]).rtype = RECORD_TERMINATOR

C27_SampleEndsWithTerminator ==
    (sample.written /\ parse(sample.data).err = "none")
        => /\ LastCopiedIsTerminator
           /\ pc = "returned" => CountOf(RECORD_TERMINATOR) = 1

(***************************************************************************)
(* C28: every byte range the scanner reads lies inside the record region.  *)
(* A record header is read at [offset, offset + 10) with offset >= 36 and  *)
(* offset + 10 <= len(data) - 2, the header of the record the scan stops   *)
(* at as truncated included; the payload handed to a decoder is exactly    *)
(* the payload_size bytes after the header and ends at or before           *)
(* len(data) - 2, so the two trailing bytes are in no header and no        *)
(* payload; a buffer of 36 to 47 bytes yields no record.                   *)
(***************************************************************************)
HeaderInRecordRegion(o) == o >= 36 /\ o + 10 <= Len(data) - 2

PayloadInRecordRegion(o) ==
    LET n == RecordHeader(data, o).payload_size
    IN  /\ o + 10 + n <= Len(data) - 2
        /\ PayloadOf(data, o) = [k \in 1..n |-> data[o + 10 + k]]

C28_ReadsStayInRecordRegion ==
    /\ \A i \in 1..Len(scanned) :
          HeaderInRecordRegion(scanned[i]) /\ PayloadInRecordRegion(scanned[i])
    /\ stop = "truncated" => HeaderInRecordRegion(offset)
    /\ Len(data) \in 36..47 =>
          /\ scanned = <<>> /\ stop # "truncated"
          /\ session.record_counts = EmptyMap /\ session.gps_fixes = <<>>
          /\ accel_by_frame = EmptyMap /\ gyro_by_frame = EmptyMap

\* a scan of two records or more whose last payload ends at len(data) - 2
C28_Witness ==
    /\ pc = "returned"
    /\ Len(scanned) >= 2
    /\ PayloadEnd(data, scanned[Len(scanned)]) = Len(data) - 2
    /\ RecordHeader(data, scanned[Len(scanned)]).payload_size > 0

(***************************************************************************)
(* C29: on every Session whose imu_frames ascend by frame, in whatever     *)
(* order its gps_fixes are, a row export_csv interpolates has              *)
(* g0.frame <= imu.frame < g1.frame for its two bracketing fixes: the      *)
(* frame span is positive, t = (imu.frame - g0.frame) / span is in [0, 1), *)
(* and each linearly interpolated field (time, latitude, longitude, speed, *)
(* altitude, vertical speed) lies between the two fixes' values.           *)
(***************************************************************************)
\* the fraction v lies between the integers a and b, whichever is greater
Between(v, a, b) ==
    /\ v.d > 0
    /\ (a <= b => a * v.d <= v.n /\ v.n <= b * v.d)
    /\ (b <= a => b * v.d <= v.n /\ v.n <= a * v.d)

\* u is at or before w, both [s, ms] pairs
UtcMsLe(u, w) == u.s < w.s \/ (u.s = w.s /\ u.ms <= w.ms)

UtcMsBetween(v, a, b) ==
    \/ UtcMsLe(a, v) /\ UtcMsLe(v, b)
    \/ UtcMsLe(b, v) /\ UtcMsLe(v, a)

FullSamples(t, f) ==
    {i \in 1..Len(scanned) :
        /\ Written[i].rtype = t /\ Written[i].frame = f
        /\ Len(Written[i].payload) = IMU_PAYLOAD_SIZE}

LastOf(S) == CHOOSE i \in S : \A j \in S : j <= i

\* the three values written in a full-size payload
TripleOf(p) == <<unpack_i(p, 0), unpack_i(p, 4), unpack_i(p, 8)>>

\* the values staged for channel t and frame f by the records scanned so far,
\* none: the default of the merge
StagedAccel(f) ==
    IF FullSamples(RECORD_ACCEL, f) = {} THEN <<0, 0, 0>>
    ELSE LET v == TripleOf(Written[LastOf(FullSamples(RECORD_ACCEL, f))].payload)
         IN  <<v[1] * 981, v[2] * 981, v[3] * 981>>

StagedGyro(f) ==
    IF FullSamples(RECORD_GYRO, f) = {} THEN <<0, 0, 0>>
    ELSE TripleOf(Written[LastOf(FullSamples(RECORD_GYRO, f))].payload)

C30_LastFullSampleWins ==
    result.fn = "parse" =>
        /\ has_staging =>
              /\ DOMAIN accel_by_frame =
                    {Written[i].frame : i \in {k \in 1..Len(scanned) :
                        FullSamples(RECORD_ACCEL, Written[k].frame) # {}}}
              /\ DOMAIN gyro_by_frame =
                    {Written[i].frame : i \in {k \in 1..Len(scanned) :
                        FullSamples(RECORD_GYRO, Written[k].frame) # {}}}
              /\ \A f \in DOMAIN accel_by_frame : accel_by_frame[f] = StagedAccel(f)
              /\ \A f \in DOMAIN gyro_by_frame : gyro_by_frame[f] = StagedGyro(f)
        /\ pc = "returned" =>
              \A k \in 1..Len(session.imu_frames) :
                  session.imu_frames[k] =
                      IMUFrame(session.imu_frames[k].frame,
                               StagedAccel(session.imu_frames[k].frame),
                               StagedGyro(session.imu_frames[k].frame))

\* two whole gyroscope records of frame 1 with different values, then a short
\* one of frame 1: the IMUFrame of frame 1 holds the second record's values
C30_Witness ==
    /\ result.fn = "parse" /\ pc = "returned"
    /\ Len(scanned) = 3
    /\ \A i \in 1..3 : Written[i].rtype = RECORD_GYRO /\ Written[i].frame = 1
    /\ FullSamples(RECORD_GYRO, 1) = {1, 2}
    /\ Written[3].payload # <<>>
    /\ TripleOf(Written[1].payload) # TripleOf(Written[2].payload)
    /\ Len(session.imu_frames) = 1
    /\ session.imu_frames[1].gyro_x = unpack_i(Written[2].payload, 0)
    /\ session.imu_frames[1].gyro_x # unpack_i(Written[1].payload, 0)

====
